---------------------------- MODULE Spec2Model ----------------------------
(***************************************************************************)
(* A model of comrak's block parser (src/parser/mod.rs, src/parser/table.rs,*)
(* src/scanners.rs, src/strings.rs).  Text is a sequence of bytes (naturals *)
(* 0..255); offsets are 0-based as in the Rust code, so the byte at offset  *)
(* i of s is s[i+1].                                                        *)
(***************************************************************************)
EXTENDS Integers, Sequences, FiniteSets, TLC

\* ------------------------------------------------------------------ bytes

\* line.as_bytes()[i], 0-based; the caller checks the range
At(s, i) == s[i + 1]

\* &s[a..b]
Slice(s, a, b) == SubSeq(s, a + 1, b)

\* &s[a..]
From(s, a) == SubSeq(s, a + 1, Len(s))

InRange(s, i) == i >= 0 /\ i < Len(s)

\* v bound to a name: In(v)
With(v, In(_)) == In(v)

Min(a, b) == IF a < b THEN a ELSE b

\* Option<usize>::None
None == 0 - 1

RECURSIVE Concat(_)
Concat(ss) == IF ss = <<>> THEN <<>> ELSE Head(ss) \o Concat(Tail(ss))

\* s.starts_with(lit)
StartsWith(s, lit) == Len(s) >= Len(lit) /\ SubSeq(s, 1, Len(lit)) = lit

\* s.contains(lit)
Contains(s, lit) ==
    \E i \in 0..(Len(s) - Len(lit)) : Slice(s, i, i + Len(lit)) = lit

\* ------------------------------------------------------------------ ctype

\* ctype::isspace: space, \t, \n, \v, \f, \r
isspace(c) == c \in {32, 9, 10, 11, 12, 13}

isdigit(c) == c \in 48..57

\* ctype::ispunct: ASCII punctuation
ispunct(c) == c \in (33..47) \cup (58..64) \cup (91..96) \cup (123..126)

\* strings::is_line_end_char
is_line_end_char(ch) == ch \in {10, 13}

\* strings::is_space_or_tab
is_space_or_tab(ch) == ch \in {9, 32}

\* ------------------------------------------------------------------ regex
(***************************************************************************)
(* The scanners are anchored regular expressions.  A regex is a record     *)
(* tree; M(r, s, i) is the sequence of offsets at which a match of r        *)
(* starting at offset i can end, in the order a leftmost-first (greedy,     *)
(* first alternative first) matcher tries them, so its head is the match    *)
(* the regex crate reports.                                                 *)
(***************************************************************************)
AnyByte == 0..255

\* an unbounded repetition count
Inf == 0 - 1

Cls(S) == [t |-> "set", s |-> S]
Not(S) == [t |-> "set", s |-> AnyByte \ S]
Cat(a, b) == [t |-> "cat", a |-> a, b |-> b]
Alt(a, b) == [t |-> "alt", a |-> a, b |-> b]
Rep(r, lo, hi) == [t |-> "rep", r |-> r, lo |-> lo, hi |-> hi]
Eps == [t |-> "eps"]
\* an alternation of literal strings, a|b|c, tried in order
Words(ls) == [t |-> "words", ls |-> ls]
Star(r) == Rep(r, 0, Inf)
Plus(r) == Rep(r, 1, Inf)
Opt(r) == Rep(r, 0, 1)

RECURSIVE CatAll(_)
CatAll(rs) == IF rs = <<>> THEN Eps
              ELSE IF Len(rs) = 1 THEN rs[1] ELSE Cat(rs[1], CatAll(Tail(rs)))

RECURSIVE AltAll(_)
AltAll(rs) == IF Len(rs) = 1 THEN rs[1] ELSE Alt(rs[1], AltAll(Tail(rs)))

RECURSIVE Lit(_)
Lit(bs) == IF bs = <<>> THEN Eps
           ELSE IF Len(bs) = 1 THEN Cls({bs[1]}) ELSE Cat(Cls({bs[1]}), Lit(Tail(bs)))

RECURSIVE Dedup(_)
Dedup(es) == IF es = <<>> THEN <<>>
             ELSE <<Head(es)>> \o Dedup(SelectSeq(Tail(es), LAMBDA e : e # Head(es)))

RECURSIVE M(_, _, _)
RECURSIVE MThen(_, _, _)
MThen(r, s, ends) ==
    IF ends = <<>> THEN <<>> ELSE M(r, s, Head(ends)) \o MThen(r, s, Tail(ends))

M(r, s, i) ==
    CASE r.t = "eps" -> <<i>>
      [] r.t = "set" -> IF i < Len(s) /\ At(s, i) \in r.s THEN <<i + 1>> ELSE <<>>
      [] r.t = "cat" -> Dedup(MThen(r.b, s, M(r.a, s, i)))
      [] r.t = "alt" -> Dedup(M(r.a, s, i) \o M(r.b, s, i))
      [] r.t = "words" ->
            LET hit == SelectSeq(r.ls, LAMBDA l : StartsWith(From(s, i), l))
            IN  Dedup([k \in 1..Len(hit) |-> i + Len(hit[k])])
      [] r.t = "rep" ->
            IF r.hi = 0 THEN <<i>>
            ELSE LET firsts == SelectSeq(M(r.r, s, i), LAMBDA e : e > i)
                     lo1 == IF r.lo > 0 THEN r.lo - 1 ELSE 0
                     hi1 == IF r.hi = Inf THEN Inf ELSE r.hi - 1
                     more == Dedup(MThen(Rep(r.r, lo1, hi1), s, firsts))
                 IN  IF r.lo > 0 THEN more ELSE more \o <<i>>

\* scanners::search on &line[start..]: the length of the match, or None
search(re, line, start) ==
    LET m == M(re, line, start) IN IF m = <<>> THEN None ELSE Head(m) - start

\* scanners::is_match on &line[start..]
is_match(re, line, start) == M(re, line, start) # <<>>

\* scanners::captures(re, line, 1) on &line[start..] for a regex (grp)rest:
\* the length of group 1 in the leftmost-first match, or None
captures(grp, rest, line, start) ==
    LET ok == SelectSeq(M(grp, line, start), LAMBDA e : M(rest, line, e) # <<>>)
    IN  IF ok = <<>> THEN None ELSE Head(ok) - start

\* ------------------------------------------------------------------ scanners

SpaceTab == Cls({32, 9})
LineEnd == Cls({13, 10})
\* [ \t\v\f\r\n]
SPACE_CHAR == Cls({32, 9, 11, 12, 13, 10})
Alpha == (65..90) \cup (97..122)
Digit == 48..57

\* \A(?:#{1,6}([ \t]+|[\r\n]))
atx_heading_start(line, start) ==
    search(Cat(Rep(Cls({35}), 1, 6), Alt(Plus(SpaceTab), LineEnd)), line, start)

\* \A(?:#{1,6})
reddit_atx_heading_start(line, start) ==
    search(Rep(Cls({35}), 1, 6), line, start)

\* (```+|~~~+)
FenceRun ==
    Alt(Cat(Lit(<<96, 96, 96>>), Star(Cls({96}))),
        Cat(Lit(<<126, 126, 126>>), Star(Cls({126}))))

\* \A(?:(```+|~~~+)[^`\r\n\x00]*[\r\n])
open_code_fence(line, start) ==
    captures(FenceRun, Cat(Star(Not({96, 13, 10, 0})), LineEnd), line, start)

\* \A(?:(```+|~~~+)[ \t]*[\r\n])
close_code_fence(line, start) ==
    captures(FenceRun, Cat(Star(SpaceTab), LineEnd), line, start)

\* script|pre|style
ScriptPreStyle ==
    Words(<< <<115, 99, 114, 105, 112, 116>>, <<112, 114, 101>>,
             <<115, 116, 121, 108, 101>> >>)

\* \A(?:.*</(script|pre|style)>)
html_block_end_1(line, start) ==
    is_match(CatAll(<<Star(Not({10})), Lit(<<60, 47>>), ScriptPreStyle, Cls({62})>>),
             line, start)

\* an end condition that no line meets
html_block_end_never(line, start) == FALSE

\* line.contains("-->")
html_block_end_2(line, start) == Contains(From(line, start), <<45, 45, 62>>)

\* line.contains("?>")
html_block_end_3(line, start) == Contains(From(line, start), <<63, 62>>)

\* line.contains('>')
html_block_end_4(line, start) == Contains(From(line, start), <<62>>)

\* line.contains("]]>")
html_block_end_5(line, start) == Contains(From(line, start), <<93, 93, 62>>)

BLOCK_TAG_NAMES == <<
    <<97, 100, 100, 114, 101, 115, 115>>, <<97, 114, 116, 105, 99, 108, 101>>,
    <<97, 115, 105, 100, 101>>, <<98, 97, 115, 101>>, <<98, 97, 115, 101, 102, 111, 110, 116>>,
    <<98, 108, 111, 99, 107, 113, 117, 111, 116, 101>>, <<98, 111, 100, 121>>,
    <<99, 97, 112, 116, 105, 111, 110>>, <<99, 101, 110, 116, 101, 114>>, <<99, 111, 108>>,
    <<99, 111, 108, 103, 114, 111, 117, 112>>, <<100, 100>>,
    <<100, 101, 116, 97, 105, 108, 115>>, <<100, 105, 97, 108, 111, 103>>, <<100, 105, 114>>,
    <<100, 105, 118>>, <<100, 108>>, <<100, 116>>, <<102, 105, 101, 108, 100, 115, 101, 116>>,
    <<102, 105, 103, 99, 97, 112, 116, 105, 111, 110>>, <<102, 105, 103, 117, 114, 101>>,
    <<102, 111, 111, 116, 101, 114>>, <<102, 111, 114, 109>>, <<102, 114, 97, 109, 101>>,
    <<102, 114, 97, 109, 101, 115, 101, 116>>, <<104, 49>>, <<104, 50>>, <<104, 51>>,
    <<104, 52>>, <<104, 53>>, <<104, 54>>, <<104, 101, 97, 100>>,
    <<104, 101, 97, 100, 101, 114>>, <<104, 114>>, <<104, 116, 109, 108>>,
    <<105, 102, 114, 97, 109, 101>>, <<108, 101, 103, 101, 110, 100>>, <<108, 105>>,
    <<108, 105, 110, 107>>, <<109, 97, 105, 110>>, <<109, 101, 110, 117>>,
    <<109, 101, 110, 117, 105, 116, 101, 109>>, <<109, 101, 116, 97>>, <<110, 97, 118>>,
    <<110, 111, 102, 114, 97, 109, 101, 115>>, <<111, 108>>,
    <<111, 112, 116, 103, 114, 111, 117, 112>>, <<111, 112, 116, 105, 111, 110>>, <<112>>,
    <<112, 97, 114, 97, 109>>, <<115, 101, 99, 116, 105, 111, 110>>,
    <<115, 111, 117, 114, 99, 101>>, <<116, 105, 116, 108, 101>>,
    <<115, 117, 109, 109, 97, 114, 121>>, <<116, 97, 98, 108, 101>>,
    <<116, 98, 111, 100, 121>>, <<116, 100>>, <<116, 102, 111, 111, 116>>, <<116, 104>>,
    <<116, 104, 101, 97, 100>>, <<116, 105, 116, 108, 101>>, <<116, 114>>,
    <<116, 114, 97, 99, 107>>, <<117, 108>> >>

\* \A(?:<(script|pre|style)([ \t\v\f\r\n]|>))
HtmlRE1 == CatAll(<<Cls({60}), ScriptPreStyle, Alt(SPACE_CHAR, Cls({62}))>>)

\* \A(?:<![A-Z])
HtmlRE4 == Cat(Lit(<<60, 33>>), Cls(65..90))

\* \A(?:</?(BLOCK_TAG_NAMES)([ \t\v\f\r\n]|/?>))
HtmlRE6 ==
    CatAll(<<Cls({60}), Opt(Cls({47})), Words(BLOCK_TAG_NAMES),
             Alt(SPACE_CHAR, Cat(Opt(Cls({47})), Cls({62})))>>)

html_block_start(line, start) ==
    IF is_match(HtmlRE1, line, start) THEN 1
    ELSE IF StartsWith(From(line, start), <<60, 33, 45, 45>>) THEN 2
    ELSE IF StartsWith(From(line, start), <<60, 63>>) THEN 3
    ELSE IF is_match(HtmlRE4, line, start) THEN 4
    ELSE IF StartsWith(From(line, start), <<60, 33, 91, 67, 68, 65, 84, 65, 91>>) THEN 5
    ELSE IF is_match(HtmlRE6, line, start) THEN 6
    ELSE None

\* [A-Za-z][A-Za-z0-9-]*
TAG_NAME == Cat(Cls(Alpha), Star(Cls(Alpha \cup Digit \cup {45})))

\* /TAG_NAME SPACE_CHAR* >
CLOSE_TAG == CatAll(<<Cls({47}), TAG_NAME, Star(SPACE_CHAR), Cls({62})>>)

\* [a-zA-Z_:][a-zA-Z0-9:._-]*
ATTRIBUTE_NAME ==
    Cat(Cls(Alpha \cup {95, 58}), Star(Cls(Alpha \cup Digit \cup {58, 46, 95, 45})))

\* [^"'=<>`\x00]+|['][^'\x00]*[']|["][^"\x00]*["]
ATTRIBUTE_VALUE ==
    AltAll(<<Plus(Not({34, 39, 61, 60, 62, 96, 0})),
             CatAll(<<Cls({39}), Star(Not({39, 0})), Cls({39})>>),
             CatAll(<<Cls({34}), Star(Not({34, 0})), Cls({34})>>)>>)

\* SPACE_CHAR* = SPACE_CHAR* ATTRIBUTE_VALUE
ATTRIBUTE_VALUE_SPEC ==
    CatAll(<<Star(SPACE_CHAR), Cls({61}), Star(SPACE_CHAR), ATTRIBUTE_VALUE>>)

\* SPACE_CHAR+ ATTRIBUTE_NAME ATTRIBUTE_VALUE_SPEC?
ATTRIBUTE == CatAll(<<Plus(SPACE_CHAR), ATTRIBUTE_NAME, Opt(ATTRIBUTE_VALUE_SPEC)>>)

\* TAG_NAME ATTRIBUTE* SPACE_CHAR* /? >
OPEN_TAG ==
    CatAll(<<TAG_NAME, Star(ATTRIBUTE), Star(SPACE_CHAR), Opt(Cls({47})), Cls({62})>>)

\* \A(?:<(OPEN_TAG|CLOSE_TAG)[\t\n\f ]*[\r\n])
html_block_start_7(line, start) ==
    IF is_match(CatAll(<<Cls({60}), Alt(OPEN_TAG, CLOSE_TAG),
                         Star(Cls({9, 10, 12, 32})), LineEnd>>), line, start)
    THEN 7 ELSE None

\* \A(?:(=+|-+)[ \t]*[\r\n]); Some(Equals) is "=", Some(Hyphen) is "-"
setext_heading_line(line, start) ==
    IF is_match(CatAll(<<Alt(Plus(Cls({61})), Plus(Cls({45}))), Star(SpaceTab), LineEnd>>),
                line, start)
    THEN (IF At(line, start) = 61 THEN "Equals" ELSE "Hyphen")
    ELSE "None"

\* a scanner that matches nowhere
scan_nothing(line, start) == None

\* \A(?:((\*[ \t]*){3,}|(_[ \t]*){3,}|(-[ \t]*){3,})[ \t]*[\r\n])
thematic_break(line, start) ==
    search(CatAll(<<AltAll(<<Rep(Cat(Cls({42}), Star(SpaceTab)), 3, Inf),
                             Rep(Cat(Cls({95}), Star(SpaceTab)), 3, Inf),
                             Rep(Cat(Cls({45}), Star(SpaceTab)), 3, Inf)>>),
                    Star(SpaceTab), LineEnd>>), line, start)

\* \\[!"#$%&'()*+,./:;<=>?@\[\\\]^_`{|}~-]
ESCAPED_CHAR ==
    Cat(Cls({92}),
        Cls({33, 34, 35, 36, 37, 38, 39, 40, 41, 42, 43, 44, 46, 47, 58, 59, 60, 61, 62,
             63, 64, 91, 92, 93, 94, 95, 96, 123, 124, 125, 126, 45}))

\* [ \t\v\f]
TABLE_SPACECHAR == Cls({32, 9, 11, 12})

\* \r?\n
TABLE_NEWLINE == Cat(Opt(Cls({13})), Cls({10}))

\* TABLE_SPACECHAR* :? -+ :? TABLE_SPACECHAR*
TABLE_MARKER ==
    CatAll(<<Star(TABLE_SPACECHAR), Opt(Cls({58})), Plus(Cls({45})), Opt(Cls({58})),
             Star(TABLE_SPACECHAR)>>)

\* (ESCAPED_CHAR|[^|\r\n])*
TABLE_CELL == Star(Alt(ESCAPED_CHAR, Not({124, 13, 10})))

\* \A\|?TABLE_MARKER(\|TABLE_MARKER)*\|?TABLE_SPACECHAR*TABLE_NEWLINE
table_start(line, start) ==
    search(CatAll(<<Opt(Cls({124})), TABLE_MARKER, Star(Cat(Cls({124}), TABLE_MARKER)),
                    Opt(Cls({124})), Star(TABLE_SPACECHAR), TABLE_NEWLINE>>), line, start)

\* \A TABLE_CELL
table_cell(line, start) == search(TABLE_CELL, line, start)

\* \A\|TABLE_SPACECHAR*TABLE_NEWLINE?
table_cell_end(line, start) ==
    search(CatAll(<<Cls({124}), Star(TABLE_SPACECHAR), Opt(TABLE_NEWLINE)>>), line, start)

\* \A TABLE_SPACECHAR* TABLE_NEWLINE
table_row_end(line, start) ==
    search(Cat(Star(TABLE_SPACECHAR), TABLE_NEWLINE), line, start)

\* \A(?:"(ESC|[^"\x00])*"|'(ESC|[^'\x00])*'|\((ESC|[^)\x00]*)*\))
link_title(line, start) ==
    search(AltAll(<<
        CatAll(<<Cls({34}), Star(Alt(ESCAPED_CHAR, Not({34, 0}))), Cls({34})>>),
        CatAll(<<Cls({39}), Star(Alt(ESCAPED_CHAR, Not({39, 0}))), Cls({39})>>),
        CatAll(<<Cls({40}), Star(Alt(ESCAPED_CHAR, Star(Not({41, 0})))), Cls({41})>>)>>),
        line, start)

\* ------------------------------------------------------------------ strings

\* Tendril::pop_back(n)
pop_back(line, n) == SubSeq(line, 1, Len(line) - n)

\* Tendril::pop_front(n)
pop_front(line, n) == SubSeq(line, n + 1, Len(line))

\* strings::rtrim
RECURSIVE rtrim(_)
rtrim(line) ==
    IF Len(line) > 0 /\ isspace(At(line, Len(line) - 1)) THEN rtrim(pop_back(line, 1))
    ELSE line

\* strings::ltrim: len counts down while the first byte is a space; each turn
\* calls pop_front(0)
RECURSIVE ltrim_loop(_, _)
ltrim_loop(line, len) ==
    IF len > 0 /\ isspace(At(line, 0)) THEN ltrim_loop(pop_front(line, 0), len - 1)
    ELSE line

ltrim(line) == ltrim_loop(line, Len(line))

\* strings::trim
trim(line) == rtrim(ltrim(line))

\* strings::trim_slice
RECURSIVE trim_slice_front(_)
trim_slice_front(i) ==
    IF Len(i) > 0 /\ isspace(At(i, 0)) THEN trim_slice_front(Tail(i)) ELSE i

trim_slice(i) == rtrim(trim_slice_front(i))

\* strings::is_blank
RECURSIVE is_blank(_)
is_blank(s) ==
    IF s = <<>> THEN TRUE
    ELSE IF Head(s) \in {10, 13} THEN TRUE
    ELSE IF Head(s) \in {32, 9} THEN is_blank(Tail(s))
    ELSE FALSE

\* strings::chop_trailing_hashtags; the caller checks that the line is not
\* all whitespace (line.len() - 1 would underflow)
RECURSIVE chop_scan(_, _)
chop_scan(line, n) ==
    IF At(line, n) = 35 THEN (IF n = 0 THEN None ELSE chop_scan(line, n - 1)) ELSE n

chop_trailing_hashtags(line0) ==
    LET line == rtrim(line0)
        orig_n == Len(line) - 1
        n == chop_scan(line, orig_n)
    IN  IF n = None THEN line
        ELSE IF n # orig_n /\ is_space_or_tab(At(line, n))
             THEN rtrim(IF Len(line) # n THEN pop_back(line, Len(line) - n) ELSE line)
             ELSE line

\* strings::remove_trailing_blank_lines; the caller checks that the line is
\* not empty (line.len32() - 1 would underflow)
RECURSIVE rtbl_back(_, _)
rtbl_back(line, i) ==
    LET c == At(line, i)
    IN  IF c # 32 /\ c # 9 /\ ~is_line_end_char(c) THEN i
        ELSE IF i = 0 THEN None
        ELSE rtbl_back(line, i - 1)

RECURSIVE rtbl_fwd(_, _)
rtbl_fwd(line, i) ==
    IF i >= Len(line) THEN line
    ELSE IF ~is_line_end_char(At(line, i)) THEN rtbl_fwd(line, i + 1)
    ELSE pop_back(line, Len(line) - i)

remove_trailing_blank_lines(line) ==
    LET i == rtbl_back(line, Len(line) - 1)
    IN  IF i = None THEN <<>> ELSE rtbl_fwd(line, i)

\* strings::unescape
RECURSIVE unescape_loop(_, _)
unescape_loop(v, r) ==
    IF r >= Len(v) THEN v
    ELSE LET v1 == IF At(v, r) = 92 /\ r + 1 < Len(v) /\ ispunct(At(v, r + 1))
                   THEN SubSeq(v, 1, r) \o SubSeq(v, r + 2, Len(v))
                   ELSE v
         IN  IF r >= Len(v1) THEN v1 ELSE unescape_loop(v1, r + 1)

unescape(v) == unescape_loop(v, 0)

\* ------------------------------------------------------------------ nodes

\* NodeValue::block
block(v) ==
    v.t \in {"Document", "BlockQuote", "List", "Item", "CodeBlock", "HtmlBlock",
             "Paragraph", "Heading", "ThematicBreak", "Table", "TableRow", "TableCell"}

\* NodeValue::accepts_lines
accepts_lines(v) == v.t \in {"Paragraph", "Heading", "CodeBlock"}

\* NodeValue::contains_inlines
contains_inlines(v) == v.t \in {"Paragraph", "Heading", "TableCell"}

\* nodes::can_contain_type(node, child)
can_contain_type(pv, child) ==
    IF child.t = "Document" THEN FALSE
    ELSE CASE pv.t \in {"Document", "BlockQuote", "Item"} -> block(child) /\ child.t # "Item"
           [] pv.t = "List" -> child.t = "Item"
           [] pv.t \in {"Paragraph", "Heading"} -> ~block(child)
           [] pv.t = "Table" -> child.t = "TableRow"
           [] pv.t = "TableRow" -> child.t = "TableCell"
           [] OTHER -> FALSE

\* nodes::make_block
make_block(value, start_line, start_column) ==
    [value |-> value, content |-> <<>>, start_line |-> start_line,
     start_column |-> start_column, end_line |-> start_line, end_column |-> 0,
     open |-> TRUE, last_line_blank |-> FALSE, parent |-> 0, children |-> <<>>]

\* ------------------------------------------------------------------ arena tree
(***************************************************************************)
(* The arena is the sequence of the nodes allocated so far; a node is its  *)
(* index.  A node holds its parent (0: none) and the sequence of its       *)
(* children, which stands for the first_child/last_child and sibling links.*)
(***************************************************************************)
Root == 1

first_child(a, n) == IF a[n].children = <<>> THEN 0 ELSE Head(a[n].children)

last_child(a, n) ==
    IF a[n].children = <<>> THEN 0 ELSE a[n].children[Len(a[n].children)]

IndexOf(seq, e) == CHOOSE k \in 1..Len(seq) : seq[k] = e

next_sibling(a, n) ==
    IF a[n].parent = 0 THEN 0
    ELSE LET cs == a[a[n].parent].children
             k == IndexOf(cs, n)
         IN  IF k = Len(cs) THEN 0 ELSE cs[k + 1]

previous_sibling(a, n) ==
    IF a[n].parent = 0 THEN 0
    ELSE LET cs == a[a[n].parent].children
             k == IndexOf(cs, n)
         IN  IF k = 1 THEN 0 ELSE cs[k - 1]

\* Node::detach
detach(a, n) ==
    IF a[n].parent = 0 THEN a
    ELSE [a EXCEPT ![a[n].parent].children = SelectSeq(@, LAMBDA c : c # n),
                   ![n].parent = 0]

\* Node::append
append(a, parent, child) ==
    LET a1 == detach(a, child)
    IN  [a1 EXCEPT ![parent].children = Append(@, child), ![child].parent = parent]

\* Node::insert_after: new_sibling is detached, takes self's parent and is
\* linked in after self
insert_after(a, self, new_sibling) ==
    LET a1 == detach(a, new_sibling)
        par == a1[self].parent
    IN  IF par = 0 THEN a1
        ELSE LET cs == a1[par].children
                 k == IndexOf(cs, self)
             IN  [a1 EXCEPT ![par].children =
                                SubSeq(cs, 1, k) \o <<new_sibling>> \o SubSeq(cs, k + 1, Len(cs)),
                            ![new_sibling].parent = par]

\* nodes::last_child_is_open
last_child_is_open(a, n) == last_child(a, n) # 0 /\ a[last_child(a, n)].open

\* nodes::ends_with_blank_line: the node, then while it is a List or Item its
\* last child, until one has last_line_blank
RECURSIVE ends_with_blank_line(_, _)
ends_with_blank_line(a, n) ==
    IF a[n].last_line_blank THEN TRUE
    ELSE IF a[n].value.t \in {"List", "Item"} /\ last_child(a, n) # 0
         THEN ends_with_blank_line(a, last_child(a, n))
         ELSE FALSE

\* the nodes reachable from n through children
RECURSIVE Descendants(_, _)
RECURSIVE DescendantsOfAll(_, _)
DescendantsOfAll(a, ns) ==
    IF ns = <<>> THEN {} ELSE Descendants(a, Head(ns)) \cup DescendantsOfAll(a, Tail(ns))

Descendants(a, n) == {n} \cup DescendantsOfAll(a, a[n].children)

\* ------------------------------------------------------------------ parser state
(***************************************************************************)
(* A parser value p is a record of the fields of struct Parser, plus       *)
(*   panic : "none", or the fail-fast condition the run stopped on (every  *)
(*           operation leaves a panicked parser as it is), and             *)
(*   lines : the lines handed to process_line so far, in order, and        *)
(*   turns : the most turns the loop of open_new_blocks took on one line.  *)
(***************************************************************************)
TAB_STOP == 4
CODE_INDENT == 4

Ok(p) == p.panic = "none"

Panic(p, why) == IF Ok(p) THEN [p EXCEPT !.panic = why] ELSE p

\* the root node allocated by parse_document (and by main)
RootNode ==
    [value |-> [t |-> "Document"], content |-> <<>>, start_line |-> 0,
     start_column |-> 0, end_line |-> 0, end_column |-> 0, open |-> TRUE,
     last_line_blank |-> FALSE, parent |-> 0, children |-> <<>>]

\* Parser::new
NewParser(options) ==
    [arena |-> <<RootNode>>, refmap |-> {}, current |-> Root, line_number |-> 0,
     offset |-> 0, column |-> 0, first_nonspace |-> 0, first_nonspace_column |-> 0,
     indent |-> 0, blank |-> FALSE, partially_consumed_tab |-> FALSE,
     last_line_length |-> 0, linebuf |-> <<>>, last_buffer_ended_with_cr |-> FALSE,
     options |-> options, panic |-> "none", lines |-> <<>>, turns |-> 0]

\* Parser::find_first_nonspace: the loop, giving <<first_nonspace, first_nonspace_column>>
RECURSIVE ffn_loop(_, _, _, _)
ffn_loop(line, fn, fnc, chars_to_tab) ==
    IF fn >= Len(line) THEN <<fn, fnc>>
    ELSE IF At(line, fn) = 32
         THEN ffn_loop(line, fn + 1, fnc + 1,
                       IF chars_to_tab - 1 = 0 THEN TAB_STOP ELSE chars_to_tab - 1)
    ELSE IF At(line, fn) = 9 THEN ffn_loop(line, fn + 1, fnc + chars_to_tab, TAB_STOP)
    ELSE <<fn, fnc>>

\* first_nonspace when every tab and space is one column wide
RECURSIVE first_nonblank_byte(_, _)
first_nonblank_byte(line, fn) ==
    IF fn < Len(line) /\ At(line, fn) \in {32, 9} THEN first_nonblank_byte(line, fn + 1)
    ELSE fn

\* find_first_nonspace with columns counted in bytes, a tab being one column
find_first_nonspace_in_bytes(p, line) ==
    With(first_nonblank_byte(line, p.offset), LAMBDA fn :
      [p EXCEPT !.first_nonspace = fn, !.first_nonspace_column = p.column + (fn - p.offset),
                !.indent = fn - p.offset,
                !.blank = fn < Len(line) /\ is_line_end_char(At(line, fn))])

\* Parser::find_first_nonspace
find_first_nonspace(p, line) ==
    With(ffn_loop(line, p.offset, p.column, TAB_STOP - (p.column % TAB_STOP)), LAMBDA r :
      [p EXCEPT !.first_nonspace = r[1], !.first_nonspace_column = r[2],
                !.indent = r[2] - p.column,
                !.blank = r[1] < Len(line) /\ is_line_end_char(At(line, r[1]))])

\* Parser::advance_offset; count is a usize, so a negative count is an
\* overflowed subtraction at the call site
RECURSIVE advance_offset(_, _, _, _)
advance_offset(p, line, count, columns) ==
    IF ~Ok(p) \/ count = 0 THEN p
    ELSE IF count < 0 THEN Panic(p, "usize subtraction overflows")
    ELSE IF ~InRange(line, p.offset) THEN Panic(p, "index out of range")
    ELSE IF At(line, p.offset) = 9
         THEN LET chars_to_tab == TAB_STOP - (p.column % TAB_STOP)
              IN  IF columns
                  THEN LET pct == chars_to_tab > count
                           chars_to_advance == Min(count, chars_to_tab)
                       IN  advance_offset(
                               [p EXCEPT !.partially_consumed_tab = pct,
                                         !.column = @ + chars_to_advance,
                                         !.offset = @ + (IF pct THEN 0 ELSE 1)],
                               line, count - chars_to_advance, columns)
                  ELSE advance_offset(
                           [p EXCEPT !.partially_consumed_tab = FALSE,
                                     !.column = @ + chars_to_tab, !.offset = @ + 1],
                           line, count - 1, columns)
    ELSE advance_offset(
             [p EXCEPT !.partially_consumed_tab = FALSE, !.offset = @ + 1,
                       !.column = @ + 1],
             line, count - 1, columns)

\* ------------------------------------------------------------------ reference definitions
(***************************************************************************)
(* A subject is the text and a position.  link_label, spnl, skip_spaces,   *)
(* skip_line_end and manual_scan_link_url belong to parser/inlines.rs.     *)
(***************************************************************************)
peek(input, pos) == IF pos < Len(input) THEN At(input, pos) ELSE None

\* Subject::link_label: the position after the closing ']' of a label that
\* starts at pos, or None; the label is the text between the brackets
RECURSIVE link_label_scan(_, _)
link_label_scan(input, pos) ==
    LET c == peek(input, pos)
    IN  IF c = None \/ c = 91 \/ c = 93 THEN pos
        ELSE IF c = 92
             THEN (IF ispunct(peek(input, pos + 1)) THEN link_label_scan(input, pos + 2)
                   ELSE link_label_scan(input, pos + 1))
        ELSE link_label_scan(input, pos + 1)

link_label(input, pos) ==
    IF peek(input, pos) # 91 THEN [ok |-> FALSE]
    ELSE LET e == link_label_scan(input, pos + 1)
         IN  IF peek(input, e) = 93
             THEN [ok |-> TRUE, lab |-> trim_slice(Slice(input, pos + 1, e)), pos |-> e + 1]
             ELSE [ok |-> FALSE]

\* Subject::skip_spaces
RECURSIVE skip_spaces(_, _)
skip_spaces(input, pos) ==
    IF peek(input, pos) \in {32, 9} THEN skip_spaces(input, pos + 1) ELSE pos

\* Subject::skip_line_end: <<new position, whether a line end or the end of
\* the text was there>>
skip_line_end(input, pos) ==
    With(IF peek(input, pos) = 13 THEN pos + 1 ELSE pos, LAMBDA p1 :
    With(IF peek(input, p1) = 10 THEN p1 + 1 ELSE p1, LAMBDA p2 :
      <<p2, p2 > pos \/ p2 >= Len(input)>>))

\* Subject::spnl: spaces, at most one line end, spaces
spnl(input, pos) ==
    With(skip_line_end(input, skip_spaces(input, pos)), LAMBDA le :
      IF le[2] THEN skip_spaces(input, le[1]) ELSE le[1])

\* inlines::manual_scan_link_url on &input[start..]: the length of the URL,
\* <...> or up to a space with balanced parentheses, or None
RECURSIVE scan_url_angle(_, _)
scan_url_angle(input, i) ==
    IF i >= Len(input) THEN i
    ELSE IF At(input, i) = 62 THEN i + 1
    ELSE IF At(input, i) = 92 THEN scan_url_angle(input, i + 2)
    ELSE IF isspace(At(input, i)) THEN None
    ELSE scan_url_angle(input, i + 1)

RECURSIVE scan_url_plain(_, _, _)
scan_url_plain(input, i, nb_p) ==
    IF i >= Len(input) THEN i
    ELSE IF At(input, i) = 92 THEN scan_url_plain(input, i + 2, nb_p)
    ELSE IF At(input, i) = 40 THEN scan_url_plain(input, i + 1, nb_p + 1)
    ELSE IF At(input, i) = 41
         THEN (IF nb_p = 0 THEN i ELSE scan_url_plain(input, i + 1, nb_p - 1))
    ELSE IF isspace(At(input, i)) THEN i
    ELSE scan_url_plain(input, i + 1, nb_p)

manual_scan_link_url(input, start) ==
    With(IF peek(input, start) = 60 THEN scan_url_angle(input, start + 1)
         ELSE scan_url_plain(input, start, 0), LAMBDA i :
      IF i = None \/ i >= Len(input) THEN None ELSE i - start)

\* the number of bytes of the UTF-8 sequence whose first byte is b
utf8_width(b) == IF b < 128 THEN 1 ELSE IF b < 224 THEN 2 ELSE IF b < 240 THEN 3 ELSE 4

\* the code point a UTF-8 sequence encodes
decode_utf8(b) ==
    IF Len(b) = 1 THEN b[1]
    ELSE IF Len(b) = 2 THEN (b[1] - 192) * 64 + (b[2] - 128)
    ELSE IF Len(b) = 3 THEN (b[1] - 224) * 4096 + (b[2] - 128) * 64 + (b[3] - 128)
    ELSE (b[1] - 240) * 262144 + (b[2] - 128) * 4096 + (b[3] - 128) * 64 + (b[4] - 128)

\* String::push(char): the UTF-8 sequence of code point c
encode_utf8(c) ==
    IF c < 128 THEN <<c>>
    ELSE IF c < 2048 THEN <<192 + (c \div 64), 128 + (c % 64)>>
    ELSE IF c < 65536 THEN <<224 + (c \div 4096), 128 + ((c \div 64) % 64), 128 + (c % 64)>>
    ELSE <<240 + (c \div 262144), 128 + ((c \div 4096) % 64), 128 + ((c \div 64) % 64),
           128 + (c % 64)>>

\* str::chars: the code points of a UTF-8 text
RECURSIVE chars(_)
chars(s) ==
    IF s = <<>> THEN <<>>
    ELSE With(Min(utf8_width(Head(s)), Len(s)), LAMBDA w :
           <<decode_utf8(SubSeq(s, 1, w))>> \o chars(SubSeq(s, w + 1, Len(s))))

\* char::is_whitespace: the code points with the Unicode property White_Space
is_whitespace(c) ==
    c \in (9..13) \cup {32, 133, 160, 5760} \cup (8192..8202)
          \cup {8232, 8233, 8239, 8287, 12288}

\* char::to_lowercase, for the letters of ASCII and Latin-1 (each has a
\* lowercase of one code point); other code points are taken as they are
to_lowercase(c) ==
    IF c \in 65..90 \/ (c \in 192..222 /\ c # 215) THEN c + 32 ELSE c

\* strings::normalize_reference_label, the loop over the chars of the label
RECURSIVE nrl_loop(_, _, _)
nrl_loop(i, v, last_was_whitespace) ==
    IF i = <<>> THEN v
    ELSE With(to_lowercase(Head(i)), LAMBDA e :
           IF is_whitespace(e)
           THEN nrl_loop(Tail(i), IF last_was_whitespace THEN v ELSE Append(v, 32), TRUE)
           ELSE nrl_loop(Tail(i), v \o encode_utf8(e), FALSE))

\* strings::normalize_reference_label
normalize_reference_label(i) == nrl_loop(chars(trim_slice(i)), <<>>, FALSE)

\* entity::unescape_html: text without '&' holds no entity and is copied
unescape_html(s) == s

\* strings::clean_url
clean_url(url0) ==
    With(trim_slice(url0), LAMBDA url :
      IF Len(url) = 0 THEN <<>>
      ELSE unescape(unescape_html(IF At(url, 0) = 60 /\ At(url, Len(url) - 1) = 62
                                  THEN Slice(url, 1, Len(url) - 1)
                                  ELSE url)))

\* strings::clean_title: whether first and last are a pair of title delimiters
delimited(first, last) ==
    (first = 39 /\ last = 39) \/ (first = 40 /\ last = 41) \/ (first = 34 /\ last = 34)

\* strings::clean_title
clean_title(title) ==
    IF Len(title) = 0 THEN <<>>
    ELSE unescape(unescape_html(IF delimited(At(title, 0), At(title, Len(title) - 1))
                                THEN Slice(title, 1, Len(title) - 1)
                                ELSE title))

\* HashMap::insert(lab, reference): the entry of lab is replaced
insert(refmap, lab, reference) ==
    {e \in refmap : e.label # lab}
        \cup {[label |-> lab, url |-> reference.url, title |-> reference.title]}

\* HashMap::entry(lab).or_insert(reference)
or_insert(refmap, lab, reference) ==
    IF \E e \in refmap : e.label = lab THEN refmap
    ELSE refmap \cup {[label |-> lab, url |-> reference.url, title |-> reference.title]}

\* Parser::parse_reference_inline returning None: the reference map is unchanged
NoReference(refmap) == [pos |-> None, refmap |-> refmap]

\* parse_reference_inline, its end: the reference is entered under the
\* normalized label unless that is empty or already there
insert_reference(refmap, pos, label, url, title) ==
    With(normalize_reference_label(label), LAMBDA lab :
      [pos |-> pos,
       refmap |-> IF lab # <<>>
                  THEN or_insert(refmap, lab,
                                 [url |-> clean_url(url), title |-> clean_title(title)])
                  ELSE refmap])

\* parse_reference_inline from `subj.skip_spaces()` after the title: the
\* position after the line end that closes the definition, or None.  Without
\* a line end after the title, the line end after the destination closes it.
reference_end(content, pos, beforetitle, has_title) ==
    With(skip_line_end(content, skip_spaces(content, pos)), LAMBDA le1 :
      IF le1[2] THEN le1[1]
      ELSE IF ~has_title THEN None
      ELSE With(skip_line_end(content, skip_spaces(content, beforetitle)), LAMBDA le2 :
             IF le2[2] THEN le2[1] ELSE None))

\* parse_reference_inline from the end of the destination: the optional
\* title and the end of the line
reference_title(refmap, content, label, url, beforetitle) ==
    With(spnl(content, beforetitle), LAMBDA pos2 :
    With(link_title(content, pos2), LAMBDA tlen :
    With(IF tlen # None THEN Slice(content, pos2, pos2 + tlen) ELSE <<>>, LAMBDA title :
    With(reference_end(content, IF tlen # None THEN pos2 + tlen ELSE beforetitle,
                       beforetitle, title # <<>>), LAMBDA pos :
      IF pos = None THEN NoReference(refmap)
      ELSE insert_reference(refmap, pos, label, url, title)))))

\* Parser::parse_reference_inline: [pos, refmap], pos None when content does
\* not start with a reference definition
parse_reference_inline(refmap, content) ==
    With(link_label(content, 0), LAMBDA ll :
      IF ~ll.ok \/ ll.lab = <<>> THEN NoReference(refmap)
      ELSE IF peek(content, ll.pos) # 58 THEN NoReference(refmap)
      ELSE With(spnl(content, ll.pos + 1), LAMBDA pos1 :
           With(manual_scan_link_url(content, pos1), LAMBDA matchlen :
             IF matchlen = None THEN NoReference(refmap)
             ELSE reference_title(refmap, content, ll.lab,
                                  Slice(content, pos1, pos1 + matchlen),
                                  pos1 + matchlen))))

\* ------------------------------------------------------------------ finalize

\* the content is left as it is and nothing is registered
strip_nothing(refmap, content) == [content |-> content, refmap |-> refmap]

\* Parser::finalize_borrowed, the Paragraph arm: leading reference definitions
\* are parsed and removed; [content, refmap]
RECURSIVE strip_reference_definitions(_, _)
strip_reference_definitions(refmap, content) ==
    IF content # <<>> /\ At(content, 0) = 91
    THEN LET r == parse_reference_inline(refmap, content)
         IN  IF r.pos # None
             THEN strip_reference_definitions(r.refmap, From(content, r.pos))
             ELSE [content |-> content, refmap |-> refmap]
    ELSE [content |-> content, refmap |-> refmap]

\* the first line end of content, or Len(content)
RECURSIVE first_line_end(_, _)
first_line_end(content, pos) ==
    IF pos < Len(content) /\ ~is_line_end_char(At(content, pos))
    THEN first_line_end(content, pos + 1)
    ELSE pos

\* nl.tight = true, without the loop over the items
list_left_tight(a, node) == TRUE

\* Parser::finalize_borrowed, the List arm: the tightness of list node
list_is_tight(a, node) ==
    ~\E k \in 1..Len(a[node].children) :
        LET item == a[node].children[k]
        IN  \/ a[item].last_line_blank /\ next_sibling(a, item) # 0
            \/ \E j \in 1..Len(a[item].children) :
                  LET subitem == a[item].children[j]
                  IN  /\ ends_with_blank_line(a, subitem)
                      /\ (next_sibling(a, item) # 0 \/ next_sibling(a, subitem) # 0)

\* the literal is set and the content is left as it was
set_literal(ast, literal) == [ast EXCEPT !.value.literal = literal]

\* mem::swap(&mut literal, content); content.clear()
swap_literal(ast, literal) == [ast EXCEPT !.value.literal = literal, !.content = <<>>]

\* finalize_borrowed, the Paragraph arm: the reference definitions are taken
\* off the content and a paragraph left blank is detached
finalize_paragraph(p, node) ==
    With(strip_reference_definitions(p.refmap, p.arena[node].content), LAMBDA s :
    With([p.arena EXCEPT ![node].content = s.content], LAMBDA a1 :
      [p EXCEPT !.arena = IF is_blank(s.content) THEN detach(a1, node) ELSE a1,
                !.refmap = s.refmap]))

\* finalize_borrowed, the fenced CodeBlock arm: the first line is the info
\* string, the rest the literal
finalize_fenced(p, node) ==
    With(p.arena[node].content, LAMBDA content :
    With(first_line_end(content, 0), LAMBDA pos :
      IF ~(pos < Len(content)) THEN Panic(p, "finalize: assert!(pos < content.len())")
      ELSE With(IF At(content, pos) = 13 THEN pos + 1 ELSE pos, LAMBDA pos1 :
             IF ~InRange(content, pos1) THEN Panic(p, "index out of range")
             ELSE [p EXCEPT !.arena[node] =
                     swap_literal(
                         [@ EXCEPT !.value.info =
                                       unescape(trim(unescape_html(Slice(content, 0, pos))))],
                         From(content, IF At(content, pos1) = 10 THEN pos1 + 1
                                       ELSE pos1))])))

\* finalize_borrowed from `let content`: what the value of the node asks for
finalize_value(p, node) ==
    With(p.arena[node], LAMBDA ast :
      CASE ast.value.t = "Paragraph" -> finalize_paragraph(p, node)
        [] ast.value.t = "CodeBlock" /\ ~ast.value.fenced ->
              IF ast.content = <<>> THEN Panic(p, "u32 subtraction overflows")
              ELSE [p EXCEPT !.arena[node] =
                      swap_literal(ast, Append(remove_trailing_blank_lines(ast.content), 10))]
        [] ast.value.t = "CodeBlock" /\ ast.value.fenced -> finalize_fenced(p, node)
        [] ast.value.t = "HtmlBlock" ->
              [p EXCEPT !.arena[node] = swap_literal(ast, ast.content)]
        [] ast.value.t = "List" ->
              [p EXCEPT !.arena[node].value.nl.tight = list_is_tight(p.arena, node)]
        [] OTHER -> p)

\* finalize_borrowed: whether the node ends on the line being read
ends_on_this_line(v) ==
    \/ v.t = "Document"
    \/ v.t = "CodeBlock" /\ v.fenced
    \/ v.t = "Heading" /\ v.setext

\* Parser::finalize and finalize_borrowed: [p, parent], parent 0 for None.
\* linebuf is empty whenever a node is finalized, so end_column of a node
\* that ends on this line is 0.
finalize(p, node) ==
    IF ~Ok(p) THEN [p |-> p, parent |-> 0]
    ELSE IF ~p.arena[node].open
    THEN [p |-> Panic(p, "finalize: assert!(ast.open)"), parent |-> 0]
    ELSE With(IF p.linebuf # <<>> \/ ends_on_this_line(p.arena[node].value)
              THEN p.line_number ELSE p.line_number - 1, LAMBDA end_line :
         With(IF p.linebuf = <<>> /\ ends_on_this_line(p.arena[node].value)
              THEN 0 ELSE p.last_line_length, LAMBDA end_column :
           IF end_line < 0
           THEN [p |-> Panic(p, "u32 subtraction overflows"), parent |-> 0]
           ELSE With(finalize_value([p EXCEPT !.arena[node].open = FALSE,
                                              !.arena[node].end_line = end_line,
                                              !.arena[node].end_column = end_column],
                                    node), LAMBDA q :
                  [p |-> q, parent |-> IF Ok(q) THEN p.arena[node].parent ELSE 0])))

\* self.current = self.finalize(self.current).unwrap()
finalize_current(p) ==
    With(finalize(p, p.current), LAMBDA f :
      IF ~Ok(f.p) THEN f.p
      ELSE IF f.parent = 0 THEN Panic(f.p, "unwrap on None")
      ELSE [f.p EXCEPT !.current = f.parent])

\* while !self.current.same_node(until) { self.current = finalize(..).unwrap() }
RECURSIVE finalize_current_until(_, _)
finalize_current_until(p, until) ==
    IF ~Ok(p) \/ p.current = until THEN p
    ELSE finalize_current_until(finalize_current(p), until)

\* Parser::add_child, its loop: the ancestor that can contain value, the
\* nodes below it finalized; [p, parent]
RECURSIVE add_child_parent(_, _, _)
add_child_parent(p, parent, value) ==
    IF ~Ok(p) THEN [p |-> p, parent |-> 0]
    ELSE IF can_contain_type(p.arena[parent].value, value) THEN [p |-> p, parent |-> parent]
    ELSE With(finalize(p, parent), LAMBDA f :
           IF ~Ok(f.p) THEN f
           ELSE IF f.parent = 0 THEN [p |-> Panic(f.p, "unwrap on None"), parent |-> 0]
           ELSE add_child_parent(f.p, f.parent, value))

\* Parser::add_child: [p, node]
add_child(p, parent, value, start_column) ==
    With(add_child_parent(p, parent, value), LAMBDA r :
      IF ~Ok(r.p) THEN [p |-> r.p, node |-> 0]
      ELSE [p |-> [r.p EXCEPT !.arena =
                      append(Append(r.p.arena,
                                    make_block(value, r.p.line_number, start_column)),
                             r.parent, Len(r.p.arena) + 1)],
            node |-> Len(r.p.arena) + 1])

\* Parser::add_line
add_line(p, node, line) ==
    IF ~Ok(p) THEN p
    ELSE IF ~p.arena[node].open THEN Panic(p, "add_line: assert!(ast.open)")
    ELSE LET chars_to_tab == TAB_STOP - (p.column % TAB_STOP)
             pad == IF p.partially_consumed_tab THEN [k \in 1..chars_to_tab |-> 32]
                    ELSE <<>>
             offset == IF p.partially_consumed_tab THEN p.offset + 1 ELSE p.offset
             rest == IF offset < Len(line) THEN From(line, offset) ELSE <<>>
         IN  [p EXCEPT !.offset = offset, !.arena[node].content = @ \o pad \o rest]

\* ------------------------------------------------------------------ list markers

\* every marker is taken to match the list
lists_always_match(list_data, item_data) == TRUE

\* parser::lists_match
lists_match(list_data, item_data) ==
    /\ list_data.list_type = item_data.list_type
    /\ list_data.delimiter = item_data.delimiter
    /\ list_data.bullet_char = item_data.bullet_char

RECURSIVE skip_space_or_tab(_, _)
skip_space_or_tab(line, i) ==
    IF is_space_or_tab(At(line, i)) THEN skip_space_or_tab(line, i + 1) ELSE i

\* parse_list_marker, the digit loop: <<pos, start>>
RECURSIVE digits_loop(_, _, _, _)
digits_loop(line, pos, start, digits) ==
    LET start1 == 10 * start + (At(line, pos) - 48)
    IN  IF digits + 1 < 9 /\ isdigit(At(line, pos + 1))
        THEN digits_loop(line, pos + 1, start1, digits + 1)
        ELSE <<pos + 1, start1>>

\* parse_list_marker, the arm of a bullet at pos0
bullet_marker(line, pos0, interrupts_paragraph) ==
    LET pos == pos0 + 1
    IN  IF ~isspace(At(line, pos)) THEN [ok |-> FALSE]
        ELSE IF interrupts_paragraph /\ At(line, skip_space_or_tab(line, pos)) = 10
        THEN [ok |-> FALSE]
        ELSE [ok |-> TRUE, matched |-> pos - pos0,
              nl |-> [list_type |-> "Bullet", marker_offset |-> 0, padding |-> 0,
                      start |-> 1, delimiter |-> "Period", bullet_char |-> At(line, pos0),
                      tight |-> FALSE]]

\* an arm that accepts no marker
no_list_marker(line, pos0, interrupts_paragraph) == [ok |-> FALSE]

\* parse_list_marker, the arm of a digit at pos0
ordered_marker(line, pos0, interrupts_paragraph) ==
    LET d == digits_loop(line, pos0, 0, 0)
        start == d[2]
        c2 == At(line, d[1])
        pos == d[1] + 1
    IN  IF interrupts_paragraph /\ start # 1 THEN [ok |-> FALSE]
        ELSE IF c2 # 46 /\ c2 # 41 THEN [ok |-> FALSE]
        ELSE IF ~isspace(At(line, pos)) THEN [ok |-> FALSE]
        ELSE IF interrupts_paragraph
                /\ is_line_end_char(At(line, skip_space_or_tab(line, pos)))
        THEN [ok |-> FALSE]
        ELSE [ok |-> TRUE, matched |-> pos - pos0,
              nl |-> [list_type |-> "Ordered", marker_offset |-> 0, padding |-> 0,
                      start |-> start,
                      delimiter |-> IF c2 = 46 THEN "Period" ELSE "Paren",
                      bullet_char |-> 0, tight |-> FALSE]]

\* parser::parse_list_marker: [ok, matched, nl]; the line ends with a line end
parse_list_marker(line, pos0, interrupts_paragraph) ==
    IF At(line, pos0) \in {42, 45, 43}
    THEN bullet_marker(line, pos0, interrupts_paragraph)
    ELSE IF isdigit(At(line, pos0))
    THEN ordered_marker(line, pos0, interrupts_paragraph)
    ELSE [ok |-> FALSE]

\* ------------------------------------------------------------------ tables

\* table::unescape_pipes
RECURSIVE unescape_pipes_loop(_, _, _)
unescape_pipes_loop(string, v, escaping) ==
    IF string = <<>> THEN (IF escaping THEN Append(v, 92) ELSE v)
    ELSE LET c == Head(string)
         IN  IF escaping THEN unescape_pipes_loop(Tail(string), Append(v, c), FALSE)
             ELSE IF c = 92 THEN unescape_pipes_loop(Tail(string), v, TRUE)
             ELSE unescape_pipes_loop(Tail(string), Append(v, c), FALSE)

unescape_pipes(string) == unescape_pipes_loop(string, <<>>, FALSE)

unwrap_or(opt, default) == IF opt = None THEN default ELSE opt

\* table::row, one turn of its loop from offset with cell_matched and
\* pipe_matched as scanned: <<offset, v>> at the break
RECURSIVE row_loop(_, _, _)
row_turn(string, offset, v, cell_matched, pipe_matched) ==
    With(IF cell_matched > 0 \/ pipe_matched > 0
         THEN Append(v, trim(unescape_pipes(Slice(string, offset, offset + cell_matched))))
         ELSE v, LAMBDA v1 :
    With(IF pipe_matched = 0
         THEN unwrap_or(table_row_end(string, offset + cell_matched), 0)
         ELSE pipe_matched, LAMBDA pipe2 :
    With(offset + cell_matched + pipe2, LAMBDA offset2 :
      IF (cell_matched > 0 \/ pipe2 > 0) /\ offset2 < Len(string)
      THEN row_loop(string, offset2, v1)
      ELSE <<offset2, v1>>)))

\* table::row, its loop
row_loop(string, offset, v) ==
    With(unwrap_or(table_cell(string, offset), 0), LAMBDA cell_matched :
      row_turn(string, offset, v, cell_matched,
               unwrap_or(table_cell_end(string, offset + cell_matched), 0)))

\* table::row on string: [ok, cells]
row(string) ==
    With(row_loop(string, IF Len(string) > 0 /\ At(string, 0) = 124 THEN 1 ELSE 0, <<>>),
         LAMBDA r :
           IF r[1] # Len(string) \/ r[2] = <<>> THEN [ok |-> FALSE]
           ELSE [ok |-> TRUE, cells |-> r[2]])

\* table::matches
matches(line) == row(line).ok

\* the alignment of one cell of the marker row
alignment(cell) ==
    LET left == cell # <<>> /\ At(cell, 0) = 58
        right == cell # <<>> /\ At(cell, Len(cell) - 1) = 58
    IN  IF left /\ right THEN "Center"
        ELSE IF left THEN "Left"
        ELSE IF right THEN "Right"
        ELSE "None"

\* try_opening_header / try_opening_row: add one TableCell per content in
\* cells under row_node, each with its content set
RECURSIVE add_cells(_, _, _, _)
add_cells(p, row_node, cells, start_column) ==
    IF ~Ok(p) \/ cells = <<>> THEN p
    ELSE With(add_child(p, row_node, [t |-> "TableCell"], start_column), LAMBDA c :
           IF ~Ok(c.p) THEN c.p
           ELSE add_cells([c.p EXCEPT !.arena[c.node].content = Head(cells)],
                          row_node, Tail(cells), start_column))

\* the result of table::try_opening_block: None, or Some((container, replace))
NoBlock(p) == [p |-> p, some |-> FALSE, container |-> 0, replace |-> FALSE]
SomeBlock(p, container, replace) ==
    [p |-> p, some |-> TRUE, container |-> container, replace |-> replace]

\* the rest of the line is left where it is
advance_nowhere(p, line) == p

\* the rest of the line is consumed: advance_offset(line, line.len() - 1 - offset, false)
advance_to_line_end(p, line) == advance_offset(p, line, Len(line) - 1 - p.offset, FALSE)

\* a row of the table: a TableRow under table with one TableCell per content;
\* then the rest of the line is consumed.  [p, some, container, replace]
add_row(p, table, header, cells, start_column, line, replace) ==
    With(add_child(p, table, [t |-> "TableRow", header |-> header], start_column), LAMBDA r :
    With(advance_to_line_end(add_cells(r.p, r.node, cells, start_column), line), LAMBDA q :
      IF ~Ok(q) THEN NoBlock(q)
      ELSE SomeBlock(q, IF header THEN table ELSE r.node, replace)))

\* try_opening_header from `let start_column`: the Table and its header row
add_table(p, container, header_cells, marker_cells, line) ==
    With(add_child(p, container,
                   [t |-> "Table",
                    alignments |-> [k \in 1..Len(marker_cells) |->
                                      alignment(marker_cells[k])]],
                   p.arena[container].start_column), LAMBDA t :
      IF ~Ok(t.p) THEN NoBlock(t.p)
      ELSE add_row(t.p, t.node, TRUE, header_cells, p.arena[container].start_column,
                   line, TRUE))

\* table::try_opening_header
try_opening_header(p, container, line) ==
    IF table_start(line, p.first_nonspace) = None THEN SomeBlock(p, container, FALSE)
    ELSE With(row(p.arena[container].content), LAMBDA header_row :
         With(row(From(line, p.first_nonspace)), LAMBDA marker_row :
           IF ~header_row.ok THEN SomeBlock(p, container, FALSE)
           ELSE IF ~marker_row.ok THEN NoBlock(Panic(p, "unwrap on None"))
           ELSE IF Len(header_row.cells) # Len(marker_row.cells)
           THEN SomeBlock(p, container, FALSE)
           ELSE add_table(p, container, header_row.cells, marker_row.cells, line)))

\* a short row left as it is: no cell is added
NoCells(n) == <<>>

\* try_opening_row: the empty cells that pad a short row
EmptyCells(n) == [k \in 1..n |-> <<>>]

\* table::try_opening_row
try_opening_row(p, container, alignments, line) ==
    IF p.blank THEN NoBlock(p)
    ELSE With(row(line), LAMBDA this_row :
           IF ~this_row.ok THEN NoBlock(Panic(p, "unwrap on None"))
           ELSE With(Min(Len(alignments), Len(this_row.cells)), LAMBDA n :
                  add_row(p, container, FALSE,
                          SubSeq(this_row.cells, 1, n) \o EmptyCells(Len(alignments) - n),
                          p.arena[container].start_column, line, FALSE)))

\* table::try_opening_block
try_opening_block(p, container, line) ==
    LET v == p.arena[container].value
    IN  IF v.t = "Paragraph" THEN try_opening_header(p, container, line)
        ELSE IF v.t = "Table" THEN try_opening_row(p, container, v.alignments, line)
        ELSE NoBlock(p)

\* ------------------------------------------------------------------ continuation

\* the result of a prefix parser: the parser and whether the prefix matched
Prefix(p, ok) == [p |-> p, ok |-> ok, should_continue |-> TRUE]

\* after a '>': one space or tab is taken with it
skip_space_after_marker(p, line) ==
    IF Ok(p) /\ is_space_or_tab(At(line, p.offset)) THEN advance_offset(p, line, 1, TRUE)
    ELSE p

\* Parser::parse_block_quote_prefix
parse_block_quote_prefix(p, line) ==
    IF p.indent <= 3 /\ At(line, p.first_nonspace) = 62
    THEN Prefix(skip_space_after_marker(advance_offset(p, line, p.indent + 1, TRUE), line),
                TRUE)
    ELSE Prefix(p, FALSE)

\* Parser::parse_node_item_prefix
parse_node_item_prefix(p, line, container, nl) ==
    IF p.indent >= nl.marker_offset + nl.padding
    THEN Prefix(advance_offset(p, line, nl.marker_offset + nl.padding, TRUE), TRUE)
    ELSE IF p.blank /\ first_child(p.arena, container) # 0
    THEN Prefix(advance_offset(p, line, p.first_nonspace - p.offset, FALSE), TRUE)
    ELSE Prefix(p, FALSE)

\* parse_code_block_prefix, its last loop: up to fence_offset columns of
\* indentation are skipped
RECURSIVE skip_fence_offset(_, _, _)
skip_fence_offset(p, line, i) ==
    IF Ok(p) /\ i > 0 /\ is_space_or_tab(At(line, p.offset))
    THEN skip_fence_offset(advance_offset(p, line, 1, TRUE), line, i - 1)
    ELSE p

\* parse_code_block_prefix, a closing fence: the block is finalized and its
\* parent becomes self.current
close_fence(p, container) ==
    With(finalize(p, container), LAMBDA f :
      [p |-> IF ~Ok(f.p) THEN f.p
             ELSE IF f.parent = 0 THEN Panic(f.p, "unwrap on None")
             ELSE [f.p EXCEPT !.current = f.parent],
       ok |-> FALSE, should_continue |-> FALSE])

\* the prefix of an indented code block asked of every code block: four
\* columns of indentation, or a blank line
parse_indented_code_prefix(p, line, container) ==
    IF p.indent >= CODE_INDENT
    THEN Prefix(advance_offset(p, line, CODE_INDENT, TRUE), TRUE)
    ELSE IF p.blank
    THEN Prefix(advance_offset(p, line, p.first_nonspace - p.offset, FALSE), TRUE)
    ELSE Prefix(p, FALSE)

\* Parser::parse_code_block_prefix
parse_code_block_prefix(p, line, container) ==
    With(p.arena[container].value, LAMBDA ncb :
      IF ~ncb.fenced
      THEN IF p.indent >= CODE_INDENT
           THEN Prefix(advance_offset(p, line, CODE_INDENT, TRUE), TRUE)
           ELSE IF p.blank
           THEN Prefix(advance_offset(p, line, p.first_nonspace - p.offset, FALSE), TRUE)
           ELSE Prefix(p, FALSE)
      ELSE With(IF p.indent <= 3 /\ At(line, p.first_nonspace) = ncb.fence_char
                THEN unwrap_or(close_code_fence(line, p.first_nonspace), 0)
                ELSE 0, LAMBDA matched :
             IF matched >= ncb.fence_length
             THEN close_fence(advance_offset(p, line, matched, FALSE), container)
             ELSE Prefix(skip_fence_offset(p, line, ncb.fence_offset), TRUE)))

\* Parser::parse_html_block_prefix
parse_html_block_prefix(p, t) ==
    IF t \in 1..5 THEN Prefix(p, TRUE)
    ELSE IF t \in {6, 7} THEN Prefix(p, ~p.blank)
    ELSE Prefix(Panic(p, "parse_html_block_prefix: assert!(false)"), FALSE)

\* check_open_blocks_inner, the match on container's value, after
\* find_first_nonspace: whether the line continues the container
continues(p, container, v, line) ==
    CASE v.t = "BlockQuote" -> parse_block_quote_prefix(p, line)
      [] v.t = "Item" -> parse_node_item_prefix(p, line, container, v.nl)
      [] v.t = "CodeBlock" -> parse_code_block_prefix(p, line, container)
      [] v.t = "HtmlBlock" -> parse_html_block_prefix(p, v.block_type)
      [] v.t = "Paragraph" -> Prefix(p, ~p.blank)
      [] v.t = "Table" -> Prefix(p, matches(From(line, p.first_nonspace)))
      [] v.t \in {"Heading", "TableRow", "TableCell"} -> Prefix(p, FALSE)
      [] OTHER -> Prefix(p, TRUE)

\* Parser::check_open_blocks_inner: [p, all_matched, container, should_continue]
RECURSIVE check_open_blocks_inner(_, _, _)
check_open_blocks_inner(p, container0, line) ==
    IF ~Ok(p) \/ ~last_child_is_open(p.arena, container0)
    THEN [p |-> p, all_matched |-> TRUE, container |-> container0, should_continue |-> TRUE]
    ELSE With(last_child(p.arena, container0), LAMBDA container :
         With(continues(find_first_nonspace(p, line), container,
                        p.arena[container].value, line), LAMBDA r :
           IF r.ok /\ Ok(r.p) THEN check_open_blocks_inner(r.p, container, line)
           ELSE [p |-> r.p, all_matched |-> FALSE, container |-> container,
                 should_continue |-> r.should_continue]))

\* Parser::check_open_blocks: [p, some, container, all_matched]
check_open_blocks(p, line) ==
    With(check_open_blocks_inner(p, Root, line), LAMBDA r :
      IF ~Ok(r.p)
      THEN [p |-> r.p, some |-> FALSE, container |-> Root, all_matched |-> FALSE]
      ELSE IF ~r.all_matched /\ r.p.arena[r.container].parent = 0
      THEN [p |-> Panic(r.p, "unwrap on None"), some |-> FALSE, container |-> Root,
            all_matched |-> FALSE]
      ELSE [p |-> r.p, some |-> r.should_continue,
            container |-> IF r.all_matched THEN r.container
                          ELSE r.p.arena[r.container].parent,
            all_matched |-> r.all_matched])

\* ------------------------------------------------------------------ openers

\* the outcome of one turn of the opener loop: the parser, the container
\* and whether the loop breaks
Opened(p, container) == [p |-> p, container |-> container, brk |-> FALSE]
Break(p, container) == [p |-> p, container |-> container, brk |-> TRUE]

\* add_child(..) assigned to *container
OpenedChild(c, container) ==
    IF Ok(c.p) THEN Opened(c.p, c.node) ELSE Opened(c.p, container)

\* open_new_blocks, the block quote arm
open_block_quote(p, container, line) ==
    OpenedChild(
        add_child(skip_space_after_marker(
                      advance_offset(p, line, p.first_nonspace + 1 - p.offset, FALSE), line),
                  container, [t |-> "BlockQuote"], p.first_nonspace + 1),
        container)

\* line[first_nonspace..].bytes().position(|c| c == b'#') + first_nonspace
RECURSIVE position_hash(_, _)
position_hash(line, i) ==
    IF i >= Len(line) THEN None
    ELSE IF At(line, i) = 35 THEN i
    ELSE position_hash(line, i + 1)

\* the level loop of the two ATX arms: the run of '#' from hashpos
RECURSIVE count_level(_, _)
count_level(line, hashpos) ==
    IF At(line, hashpos) = 35 THEN 1 + count_level(line, hashpos + 1) ELSE 0

\* the two ATX arms after add_child: the level is the run of '#' counted
\* from the first '#' at or after first_nonspace
set_level(c, container, line) ==
    IF ~Ok(c.p) THEN Opened(c.p, container)
    ELSE With(position_hash(line, c.p.first_nonspace), LAMBDA hashpos :
           IF hashpos = None THEN Opened(Panic(c.p, "unwrap on None"), container)
           ELSE Opened([c.p EXCEPT !.arena[c.node].value =
                           [t |-> "Heading", level |-> count_level(line, hashpos),
                            setext |-> FALSE]],
                       c.node))

\* open_new_blocks, the ATX heading arm and the arm of reddit_atx_heading_start,
\* which have the same body
open_atx_heading(p, container, line, matched) ==
    set_level(add_child(advance_offset(p, line, p.first_nonspace + matched - p.offset, FALSE),
                        container, [t |-> "Heading", level |-> 0, setext |-> FALSE],
                        p.first_nonspace + 1),
              container, line)

\* open_new_blocks, the fenced code arm
open_fenced_code(p, container, line, matched) ==
    With(add_child(p, container,
                   [t |-> "CodeBlock", fenced |-> TRUE,
                    fence_char |-> At(line, p.first_nonspace), fence_length |-> matched,
                    fence_offset |-> p.first_nonspace - p.offset,
                    info |-> <<>>, literal |-> <<>>],
                   p.first_nonspace + 1), LAMBDA c :
      IF ~Ok(c.p) THEN Opened(c.p, container)
      ELSE Opened(advance_offset(c.p, line, p.first_nonspace + matched - p.offset, FALSE),
                  c.node))

\* open_new_blocks, the HTML block arm
open_html_block(p, container, matched) ==
    OpenedChild(add_child(p, container,
                          [t |-> "HtmlBlock", block_type |-> matched, literal |-> <<>>],
                          p.first_nonspace + 1),
                container)

\* open_new_blocks, the setext arm: the paragraph becomes a heading
open_setext_heading(p, container, line, sc) ==
    Opened(advance_to_line_end(
               [p EXCEPT !.arena[container].value =
                   [t |-> "Heading", level |-> IF sc = "Equals" THEN 1 ELSE 2,
                    setext |-> TRUE]],
               line),
           container)

\* open_new_blocks, the thematic break arm
open_thematic_break(p, container, line) ==
    With(add_child(p, container, [t |-> "ThematicBreak"], p.first_nonspace + 1), LAMBDA c :
      IF ~Ok(c.p) THEN Opened(c.p, container)
      ELSE Opened(advance_to_line_end(c.p, line), c.node))

\* the list arm without its loop: no space after the marker is skipped
skip_no_spaces(p, line, save_column) == p

\* the list arm: spaces and tabs after the marker, up to 5 columns
RECURSIVE skip_marker_spaces(_, _, _)
skip_marker_spaces(p, line, save_column) ==
    IF Ok(p) /\ p.column - save_column <= 5 /\ is_space_or_tab(At(line, p.offset))
    THEN skip_marker_spaces(advance_offset(p, line, 1, TRUE), line, save_column)
    ELSE p

\* the list arm from `nl.marker_offset`: the List unless container is a
\* matching one, and the Item
add_list_item(p, container, nl, offset) ==
    With(p.arena[container].value, LAMBDA cv :
    With(IF cv.t = "List" /\ lists_match(nl, cv.nl) THEN [p |-> p, node |-> container]
         ELSE add_child(p, container, [t |-> "List", nl |-> nl], offset), LAMBDA l :
      IF ~Ok(l.p) THEN Opened(l.p, container)
      ELSE OpenedChild(add_child(l.p, l.node, [t |-> "Item", nl |-> nl], offset),
                       container)))

\* the list arm after the spaces that follow the marker: padding is set; save
\* is the parser after the marker, p2 after the spaces
list_padding(save, p2, container, line, m, indent) ==
    With(p2.column - save.column, LAMBDA i :
      IF i >= 5 \/ i < 1 \/ is_line_end_char(At(line, p2.offset))
      THEN With([p2 EXCEPT !.offset = save.offset, !.column = save.column,
                           !.partially_consumed_tab = save.partially_consumed_tab],
                LAMBDA restored :
             add_list_item(IF i > 0 THEN advance_offset(restored, line, 1, TRUE)
                           ELSE restored,
                           container,
                           [m.nl EXCEPT !.padding = m.matched + 1, !.marker_offset = indent],
                           save.first_nonspace + 1))
      ELSE add_list_item(p2, container,
                         [m.nl EXCEPT !.padding = m.matched + i, !.marker_offset = indent],
                         save.first_nonspace + 1))

\* open_new_blocks, the list arm; m is the result of parse_list_marker
open_list_item(p, container, line, m) ==
    With(advance_offset(p, line, p.first_nonspace + m.matched - p.offset, FALSE), LAMBDA save :
      IF ~Ok(save) THEN Opened(save, container)
      ELSE list_padding(save, skip_marker_spaces(save, line, save.column), container,
                        line, m, p.indent))

\* open_new_blocks, the indented code arm
open_indented_code(p, container, line) ==
    With(advance_offset(p, line, CODE_INDENT, TRUE), LAMBDA p1 :
      OpenedChild(add_child(p1, container,
                            [t |-> "CodeBlock", fenced |-> FALSE, fence_char |-> 0,
                             fence_length |-> 0, fence_offset |-> 0, info |-> <<>>,
                             literal |-> <<>>],
                            p1.offset + 1),
                  container))

\* open_new_blocks, the last arm: the table extension, or break
open_table(p, container, line, indented) ==
    With(IF ~indented /\ p.options.ext_table THEN try_opening_block(p, container, line)
         ELSE NoBlock(p), LAMBDA r :
      IF ~Ok(r.p) \/ ~r.some THEN Break(r.p, container)
      ELSE IF r.replace
      THEN Opened([r.p EXCEPT !.arena =
                      detach(insert_after(r.p.arena, container, r.container), container)],
                  r.container)
      ELSE Opened(r.p, r.container))

\* Some(a) or else b
or_else(a, b) == IF a # None THEN a ELSE b

\* the arms of open_new_blocks that open a leaf or change the paragraph, tried
\* in order after the block quote arm; cv is the value of container.  The arm
\* of atx_heading_start and the arm of reddit_atx_heading_start have the same
\* body, and so have the two scanners of the HTML arm.
open_leaf(p, container, line, all_matched, cv) ==
    With(or_else(atx_heading_start(line, p.first_nonspace),
                 reddit_atx_heading_start(line, p.first_nonspace)), LAMBDA atx :
    With(open_code_fence(line, p.first_nonspace), LAMBDA fence :
    With(or_else(html_block_start(line, p.first_nonspace),
                 IF cv.t = "Paragraph" THEN None
                 ELSE html_block_start_7(line, p.first_nonspace)), LAMBDA html :
    With(IF cv.t = "Paragraph" THEN setext_heading_line(line, p.first_nonspace)
         ELSE "None", LAMBDA sc :
      IF atx # None THEN open_atx_heading(p, container, line, atx)
      ELSE IF fence # None THEN open_fenced_code(p, container, line, fence)
      ELSE IF html # None THEN open_html_block(p, container, html)
      ELSE IF sc # "None" THEN open_setext_heading(p, container, line, sc)
      ELSE IF ~(cv.t = "Paragraph" /\ ~all_matched)
              /\ thematic_break(line, p.first_nonspace) # None
      THEN open_thematic_break(p, container, line)
      ELSE Break(p, container)))))

\* every indented line opens indented code
opens_code_when_indented(p, maybe_lazy, indented) == indented

\* the condition of the indented code arm
opens_indented_code(p, maybe_lazy, indented) == indented /\ ~maybe_lazy /\ ~p.blank

\* the arms from the list arm on, for a line that opens no leaf
open_list_or_code(p, container, line, maybe_lazy, cv, indented) ==
    With(parse_list_marker(line, p.first_nonspace, cv.t = "Paragraph"), LAMBDA m :
      IF (~indented \/ cv.t = "List") /\ m.ok THEN open_list_item(p, container, line, m)
      ELSE IF opens_indented_code(p, maybe_lazy, indented)
      THEN open_indented_code(p, container, line)
      ELSE open_table(p, container, line, indented))

\* one turn of the loop of open_new_blocks, after find_first_nonspace: the
\* first arm whose condition holds
open_block(p, container, line, all_matched, maybe_lazy) ==
    With(p.indent >= CODE_INDENT, LAMBDA indented :
    With(p.arena[container].value, LAMBDA cv :
      IF ~indented /\ At(line, p.first_nonspace) = 62 THEN open_block_quote(p, container, line)
      ELSE With(IF indented THEN Break(p, container)
                ELSE open_leaf(p, container, line, all_matched, cv), LAMBDA o :
             IF ~o.brk THEN o
             ELSE open_list_or_code(p, container, line, maybe_lazy, cv, indented))))

\* the loop of open_new_blocks after one turn with outcome o
RECURSIVE open_new_blocks_loop(_, _, _, _, _, _)
next_turn(o, line, all_matched, turns) ==
    IF ~Ok(o.p) \/ o.brk \/ accepts_lines(o.p.arena[o.container].value)
    THEN [p |-> IF Ok(o.p) /\ turns > o.p.turns THEN [o.p EXCEPT !.turns = turns] ELSE o.p,
          container |-> o.container]
    ELSE open_new_blocks_loop(o.p, o.container, line, all_matched, FALSE, turns)

\* the loop of open_new_blocks; turns counts the turns taken on this line
open_new_blocks_loop(p, container, line, all_matched, maybe_lazy, turns) ==
    IF ~Ok(p) \/ p.arena[container].value.t \in {"CodeBlock", "HtmlBlock"}
    THEN [p |-> p, container |-> container]
    ELSE IF turns > Len(line) + 1
    THEN [p |-> Panic(p, "open_new_blocks does not end"), container |-> container]
    ELSE next_turn(open_block(find_first_nonspace(p, line), container, line, all_matched,
                              maybe_lazy),
                   line, all_matched, turns + 1)

\* Parser::open_new_blocks: [p, container]
open_new_blocks(p, container, line, all_matched) ==
    open_new_blocks_loop(p, container, line, all_matched,
                         p.arena[p.current].value.t = "Paragraph", 0)

\* ------------------------------------------------------------------ lines

\* add_text_to_container: last_line_blank of every proper ancestor is cleared
RECURSIVE clear_ancestors(_, _)
clear_ancestors(a, tmp) ==
    IF a[tmp].parent = 0 THEN a
    ELSE clear_ancestors([a EXCEPT ![a[tmp].parent].last_line_blank = FALSE], a[tmp].parent)

\* add_text_to_container: the end condition of an HTML block of block_type
matches_end_condition(block_type, line, first_nonspace) ==
    CASE block_type = 1 -> html_block_end_1(line, first_nonspace)
      [] block_type = 2 -> html_block_end_2(line, first_nonspace)
      [] block_type = 3 -> html_block_end_3(line, first_nonspace)
      [] block_type = 4 -> html_block_end_4(line, first_nonspace)
      [] block_type = 5 -> html_block_end_5(line, first_nonspace)
      [] OTHER -> FALSE

\* add_text_to_container, the HtmlBlock arm after add_line: the block is
\* finalized when the line matches its end condition; [p, container]
end_html_block(p, container, block_type, line) ==
    IF ~Ok(p) \/ ~matches_end_condition(block_type, line, p.first_nonspace)
    THEN [p |-> p, container |-> container]
    ELSE With(finalize(p, container), LAMBDA f :
           IF Ok(f.p) /\ f.parent = 0
           THEN [p |-> Panic(f.p, "unwrap on None"), container |-> container]
           ELSE [p |-> f.p, container |-> f.parent])

\* add_text_to_container, the arm of a container that accepts lines
add_text_line(p, container, line) ==
    [p |-> add_line(advance_offset(p, line, p.first_nonspace - p.offset, FALSE),
                    container, line),
     container |-> container]

\* add_text_to_container, the arm that opens a Paragraph; c is add_child's result
add_text_paragraph(c, container, line) ==
    IF ~Ok(c.p) THEN [p |-> c.p, container |-> container]
    ELSE add_text_line(c.p, c.node, line)

\* add_text_to_container, the else branch once self.current is
\* last_matched_container: the line goes to container; [p, container]
add_text(p, container, line) ==
    With(IF Ok(p) THEN p.arena[container].value ELSE [t |-> "Document"], LAMBDA v :
      IF ~Ok(p) THEN [p |-> p, container |-> container]
      ELSE IF v.t = "CodeBlock"
      THEN [p |-> add_line(p, container, line), container |-> container]
      ELSE IF v.t = "HtmlBlock"
      THEN end_html_block(add_line(p, container, line), container, v.block_type, line)
      ELSE IF p.blank THEN [p |-> p, container |-> container]
      ELSE IF accepts_lines(v)
      THEN add_text_line(p, container,
                         IF v.t = "Heading" /\ ~v.setext THEN chop_trailing_hashtags(line)
                         ELSE line)
      ELSE add_text_paragraph(add_child(p, container, [t |-> "Paragraph"],
                                        p.first_nonspace + 1),
                              container, line))

\* add_text_to_container: whether a blank line counts as the last line of
\* container
counts_as_last_line(a, container, line_number) ==
    With(a[container].value, LAMBDA v :
      CASE v.t \in {"BlockQuote", "Heading", "ThematicBreak"} -> FALSE
        [] v.t = "CodeBlock" -> ~v.fenced
        [] v.t = "Item" -> \/ first_child(a, container) # 0
                           \/ a[container].start_line # line_number
        [] OTHER -> TRUE)

\* add_text_to_container up to the loop over the ancestors: the
\* last_line_blank flags
set_last_line_blank(p, container) ==
    With(last_child(p.arena, container), LAMBDA lc :
    With(IF p.blank /\ lc # 0 THEN [p.arena EXCEPT ![lc].last_line_blank = TRUE]
         ELSE p.arena, LAMBDA a1 :
      [p EXCEPT !.arena =
          clear_ancestors(
              [a1 EXCEPT ![container].last_line_blank =
                  p.blank /\ counts_as_last_line(a1, container, p.line_number)],
              container)]))

\* add_text_to_container, the else branch: the unmatched blocks are
\* finalized, the line goes to container, which becomes self.current
add_text_to_matched(p, container, last_matched_container, line) ==
    With(add_text(finalize_current_until(p, last_matched_container), container, line),
         LAMBDA r : IF Ok(r.p) THEN [r.p EXCEPT !.current = r.container] ELSE r.p)

\* add_text_to_container without its first branch: no line is lazy
add_text_never_lazy(p, container, last_matched_container, line) ==
    add_text_to_matched(p, container, last_matched_container, line)

\* add_text_to_container from `if !self.current.same_node(..)`
add_text_or_lazy(p, container, last_matched_container, line) ==
    IF /\ p.current # last_matched_container
       /\ container = last_matched_container
       /\ ~p.blank
       /\ p.arena[p.current].value.t = "Paragraph"
    THEN add_line(p, p.current, line)
    ELSE add_text_to_matched(p, container, last_matched_container, line)

\* Parser::add_text_to_container
add_text_to_container(p, container, last_matched_container, line) ==
    IF ~Ok(p) THEN p
    ELSE add_text_or_lazy(set_last_line_blank(find_first_nonspace(p, line), container),
                          container, last_matched_container, line)

\* process_line: a line that does not end with a line end gets a '\n'
terminated(line) ==
    IF line = <<>> \/ ~is_line_end_char(At(line, Len(line) - 1)) THEN Append(line, 10)
    ELSE line

\* process_line: the length of line without its "\n" and then its "\r"
line_length(line) ==
    With(IF Len(line) > 0 /\ At(line, Len(line) - 1) = 10 THEN Len(line) - 1
         ELSE Len(line), LAMBDA n :
      IF n > 0 /\ At(line, n - 1) = 13 THEN n - 1 ELSE n)

\* the UTF-8 encoding of U+FEFF and of U+FFFD
BOM == <<239, 187, 191>>
REPLACEMENT_CHARACTER == <<239, 191, 189>>

\* process_line, `if current.same_node(self.current)`; o is the result of
\* open_new_blocks
add_text_if_current(o, current, last_matched_container, line) ==
    IF Ok(o.p) /\ current = o.p.current
    THEN add_text_to_container(o.p, o.container, last_matched_container, line)
    ELSE o.p

\* process_line, the body of `if let Some(last_matched_container)`; c is the
\* result of check_open_blocks
process_blocks(c, line) ==
    IF ~Ok(c.p) \/ ~c.some THEN c.p
    ELSE add_text_if_current(open_new_blocks(c.p, c.container, line, c.all_matched),
                             c.p.current, c.container, line)

\* process_line, its last statements
set_last_line_length(p, line) ==
    IF Ok(p) THEN [p EXCEPT !.last_line_length = line_length(line)] ELSE p

\* process_line from `self.offset = 0` to `self.line_number += 1`
start_line(p, line) ==
    [p EXCEPT !.offset = IF p.line_number = 0 /\ Len(line) >= 3
                             /\ StartsWith(line, BOM) THEN 3 ELSE 0,
              !.column = 0, !.blank = FALSE, !.partially_consumed_tab = FALSE,
              !.line_number = @ + 1, !.lines = Append(@, line)]

\* process_line from `self.offset = 0`, with the line terminated
process_terminated(p, line) ==
    set_last_line_length(
        process_blocks(check_open_blocks(start_line(p, line), line), line),
        line)

\* Parser::process_line; the line is recorded in lines
process_line(p, line) ==
    IF ~Ok(p) THEN p ELSE process_terminated(p, terminated(line))

\* ------------------------------------------------------------------ feed

\* feed, the inner loop: <<eol, process>>
RECURSIVE scan_eol(_, _)
scan_eol(buffer, eol) ==
    IF eol >= Len(buffer) THEN <<eol, FALSE>>
    ELSE IF is_line_end_char(At(buffer, eol)) THEN <<eol, TRUE>>
    ELSE IF At(buffer, eol) = 0 THEN <<eol, FALSE>>
    ELSE scan_eol(buffer, eol + 1)

\* the line buffer is left as it is
keep_linebuf(p) == p

\* mem::replace(&mut self.linebuf, String::new()): the parser with its line
\* buffer emptied, while the line is processed
take_linebuf(p) == [p EXCEPT !.linebuf = <<>>]

\* feed, the line handed to process_line when process is set
feed_line(p, buffer, i, eol) ==
    IF p.linebuf # <<>> THEN p.linebuf \o Slice(buffer, i, eol)
    ELSE IF Len(buffer) > eol /\ At(buffer, eol) = 10 THEN Slice(buffer, i, eol + 1)
    ELSE Slice(buffer, i, eol)

\* feed, the outer loop from `i = eol`: a CR and then a LF are skipped
RECURSIVE feed_loop(_, _, _, _)
feed_next(p, buffer, i, eof) ==
    With(i < Len(buffer) /\ At(buffer, i) = 13, LAMBDA cr :
    With(IF cr THEN i + 1 ELSE i, LAMBDA i2 :
      feed_loop(IF Ok(p) /\ cr /\ i2 = Len(buffer)
                THEN [p EXCEPT !.last_buffer_ended_with_cr = TRUE] ELSE p,
                buffer,
                IF i2 < Len(buffer) /\ At(buffer, i2) = 10 THEN i2 + 1 ELSE i2,
                eof)))

\* feed, one turn of the outer loop with eol and process as the inner loop
\* and `eol >= sz && eof` leave them
feed_turn(p, buffer, i, eol, process, eof) ==
    With(~process /\ eol < Len(buffer) /\ At(buffer, eol) = 0, LAMBDA nul :
      feed_next(IF process
                THEN process_line(take_linebuf(p), feed_line(p, buffer, i, eol))
                ELSE IF nul
                THEN [p EXCEPT !.linebuf = @ \o Slice(buffer, i, eol) \o REPLACEMENT_CHARACTER]
                ELSE [p EXCEPT !.linebuf = @ \o Slice(buffer, i, eol)],
                buffer, IF nul THEN eol + 1 ELSE eol, eof))

\* feed, the outer loop from index i
feed_loop(p, buffer, i, eof) ==
    IF ~Ok(p) \/ i >= Len(buffer) THEN p
    ELSE With(scan_eol(buffer, i), LAMBDA s :
           feed_turn(p, buffer, i, s[1], s[2] \/ (s[1] >= Len(buffer) /\ eof), eof))

\* Parser::feed
feed(p, buffer, eof) ==
    IF ~Ok(p) THEN p
    ELSE IF p.last_buffer_ended_with_cr /\ buffer = <<>>
    THEN Panic(p, "index out of range")
    ELSE feed_loop([p EXCEPT !.last_buffer_ended_with_cr = FALSE], buffer,
                   IF p.last_buffer_ended_with_cr /\ At(buffer, 0) = 10 THEN 1 ELSE 0, eof)

\* Parser::finalize_document, without the inline phase
finalize_document(p) ==
    With(finalize_current_until(p, Root), LAMBDA p1 :
      IF ~Ok(p1) THEN p1 ELSE finalize(p1, Root).p)

\* Parser::finish, up to the block tree
finish(p) ==
    IF ~Ok(p) THEN p
    ELSE finalize_document(IF p.linebuf # <<>>
                           THEN process_line(take_linebuf(p), p.linebuf)
                           ELSE p)

\* parser::parse_document, up to the block tree
parse_document(buffer, options) == finish(feed(NewParser(options), buffer, TRUE))

\* ------------------------------------------------------------------ post-pass on text nodes
(***************************************************************************)
(* The post-pass runs on the tree the inline phase leaves.  A Text node    *)
(* holds its string in value.text, an HtmlInline node in value.literal.    *)
(***************************************************************************)
\* the characters \s of the regex crate matches, in code point order
WhiteSpaceChars ==
    <<9, 10, 11, 12, 13, 32, 133, 160, 5760, 8192, 8193, 8194, 8195, 8196, 8197,
      8198, 8199, 8200, 8201, 8202, 8232, 8233, 8239, 8287, 12288>>

\* \s on UTF-8 text
UnicodeSpace == Words([k \in 1..Len(WhiteSpaceChars) |-> encode_utf8(WhiteSpaceChars[k])])

\* group 1 of TASKLIST: \s*\[([xX ])\]
TaskMarker == CatAll(<<Star(UnicodeSpace), Cls({91}), Cls({120, 88, 32}), Cls({93})>>)

\* TASKLIST.captures(text), \A(\s*\[([xX ])\])(?:\z|\s): the end of group 1
\* in the leftmost-first match, or None
TASKLIST(text) ==
    LET ok == SelectSeq(M(TaskMarker, text, 0),
                        LAMBDA e : e = Len(text) \/ M(UnicodeSpace, text, e) # <<>>)
    IN  IF ok = <<>> THEN None ELSE Head(ok)

CheckedBox ==
    <<60, 105, 110, 112, 117, 116, 32, 116, 121, 112, 101, 61, 34, 99, 104, 101,
      99, 107, 98, 111, 120, 34, 32, 100, 105, 115, 97, 98, 108, 101, 100, 61,
      34, 34, 32, 99, 104, 101, 99, 107, 101, 100, 61, 34, 34, 32, 47, 62>>

UncheckedBox ==
    <<60, 105, 110, 112, 117, 116, 32, 116, 121, 112, 101, 61, 34, 99, 104, 101,
      99, 107, 98, 111, 120, 34, 32, 100, 105, 115, 97, 98, 108, 101, 100, 61,
      34, 34, 32, 47, 62>>

\* inlines::make_inline: a closed node without content, allocated at the end
\* of the arena
make_inline(a, value) == Append(a, [make_block(value, 0, 0) EXCEPT !.open = FALSE])

\* Node::insert_before: new_sibling is detached, takes self's parent and is
\* linked in before self
insert_before(a, self, new_sibling) ==
    LET a1 == detach(a, new_sibling)
        par == a1[self].parent
    IN  IF par = 0 THEN a1
        ELSE LET cs == a1[par].children
                 k == IndexOf(cs, self)
             IN  [a1 EXCEPT ![par].children =
                                SubSeq(cs, 1, k - 1) \o <<new_sibling>> \o SubSeq(cs, k, Len(cs)),
                            ![new_sibling].parent = par]

\* ------------------------------------------------------------------ inline phase
(***************************************************************************)
(* The inline parser is given the content of one leaf and the reference    *)
(* map, which it reads and does not write.  Of its constructs the shortcut *)
(* reference link is kept: a leaf whose text is [label] with label in the  *)
(* reference map becomes a Link holding the label as Text; any other text  *)
(* becomes one Text node.                                                  *)
(***************************************************************************)
\* the references of refmap under the normalized label
lookup(refmap, lab) == {e \in refmap : e.label = normalize_reference_label(lab)}

\* the new inline node is appended to node; [a, node]
add_inline(a, node, value) ==
    [a |-> append(make_inline(a, value), node, Len(a) + 1), node |-> Len(a) + 1]

\* Parser::parse_inlines
parse_inlines(p, node) ==
    With(rtrim(p.arena[node].content), LAMBDA input :
    With(link_label(input, 0), LAMBDA ll :
    With(IF ll.ok /\ ll.pos = Len(input) THEN lookup(p.refmap, ll.lab) ELSE {}, LAMBDA refs :
      IF input = <<>> THEN p
      ELSE IF refs = {}
      THEN [p EXCEPT !.arena = add_inline(p.arena, node, [t |-> "Text", text |-> input]).a]
      ELSE With(CHOOSE e \in refs : TRUE, LAMBDA e :
           With(add_inline(p.arena, node,
                           [t |-> "Link", url |-> e.url, title |-> e.title]), LAMBDA link :
             [p EXCEPT !.arena = add_inline(link.a, link.node,
                                            [t |-> "Text", text |-> ll.lab]).a])))))

\* the nodes below n in the order process_inlines_node visits them
RECURSIVE visit_order(_, _)
RECURSIVE visit_order_all(_, _)
visit_order_all(a, ns) ==
    IF ns = <<>> THEN <<>> ELSE visit_order(a, Head(ns)) \o visit_order_all(a, Tail(ns))

visit_order(a, n) == <<n>> \o visit_order_all(a, a[n].children)

\* Parser::process_inlines: the nodes that parse_inlines is called on, in order
process_inlines(a) ==
    SelectSeq(visit_order(a, Root), LAMBDA n : contains_inlines(a[n].value))

\* the spine is left as it is: the loop of finalize_document is not entered
spine_left_open(p) == TRUE

\* finalize_document, `self.current.same_node(self.root)`: the loop has ended
spine_closed(p) == p.current = Root

\* Parser::process_tasklist(node, text), text being the string of node
process_tasklist(p, node) ==
    LET a == p.arena
        text == a[node].value.text
        end == TASKLIST(text)
        parent == a[node].parent
    IN  IF end = None THEN p
        ELSE IF parent = 0 THEN Panic(p, "unwrap")
        ELSE IF previous_sibling(a, node) # 0 \/ previous_sibling(a, parent) # 0 THEN p
        ELSE IF a[parent].value.t # "Paragraph" THEN p
        ELSE IF a[parent].parent = 0 THEN Panic(p, "unwrap")
        ELSE IF a[a[parent].parent].value.t # "Item" THEN p
        ELSE LET active == At(text, end - 2) # 32
                 a1 == [a EXCEPT ![node].value.text = From(text, end)]
                 a2 == make_inline(a1, [t |-> "HtmlInline",
                                        literal |-> IF active THEN CheckedBox
                                                    ELSE UncheckedBox])
             IN  [p EXCEPT !.arena = insert_before(a2, node, Len(a2))]

\* the post-pass of a parser that does not read ext_tasklist
postprocess_unconditionally(p, node) == process_tasklist(p, node)

\* Parser::postprocess_text_node(node, text); ext_autolink is off
postprocess_text_node(p, node) ==
    IF p.options.ext_tasklist THEN process_tasklist(p, node) ELSE p

\* postprocess_text_nodes, `*root += adj; ns.detach()`: the text of ns is
\* appended to the text of n and ns is detached
coalesce(p, n, ns) ==
    [p EXCEPT !.arena = detach([p.arena EXCEPT ![n].value.text =
                                                   @ \o p.arena[ns].value.text],
                               ns)]

\* Parser::postprocess_text_nodes(node): walk is its loop from the child n.
\* A Text child takes the Text nodes that follow it and is then given to
\* postprocess_text_node; the children of a Link or an Image are not visited.
RECURSIVE postprocess_text_nodes(_, _)
RECURSIVE postprocess_walk(_, _)
postprocess_walk(p, n) ==
    IF ~Ok(p) \/ n = 0 THEN p
    ELSE With(next_sibling(p.arena, n), LAMBDA ns :
           CASE p.arena[n].value.t = "Text" ->
                  IF ns # 0 /\ p.arena[ns].value.t = "Text"
                  THEN postprocess_walk(coalesce(p, n, ns), n)
                  ELSE With(postprocess_text_nodes(postprocess_text_node(p, n), n),
                            LAMBDA q : postprocess_walk(q, next_sibling(q.arena, n)))
             [] p.arena[n].value.t \in {"Link", "Image"} -> postprocess_walk(p, ns)
             [] OTHER ->
                  With(postprocess_text_nodes(p, n),
                       LAMBDA q : postprocess_walk(q, next_sibling(q.arena, n))))

postprocess_text_nodes(p, node) == postprocess_walk(p, first_child(p.arena, node))

\* ------------------------------------------------------------------ the parser as a state machine
(***************************************************************************)
(* parser is the Parser and its arena; fed is the sequence of buffers given*)
(* to feed so far; pc is the call made last: "new", "feed", "finish" or    *)
(* "parse_document".  A parser that has panicked takes no further step.    *)
(***************************************************************************)
VARIABLES parser, fed, pc, ret

vars == <<parser, fed, pc, ret>>

\* the number of feed calls on one parser
MaxChunks == 3

\* the lines fed one per feed call: each is a whole line, ending with LF
Lines ==
    { <<97, 124, 98, 10>>,                 \* a|b
      <<45, 124, 45, 10>>,                 \* -|-
      <<99, 10>>,                          \* c
      <<91, 97, 93, 58, 32, 98, 10>>,      \* [a]: b
      <<124, 45, 10>>,                     \* |-
      <<35, 35, 35, 35, 35, 35, 35, 10>>,  \* seven #
      <<35, 97, 10>>,                      \* #a
      <<35, 32, 97, 32, 35, 10>>,          \* # a #
      <<9, 45, 32, 120, 10>>,              \* TAB - x
      <<32, 9, 45, 32, 120, 10>>,          \* SPACE TAB - x
      <<45, 32, 120, 10>>,                 \* - x
      <<62, 32, 97, 10>>,                  \* > a
      <<96, 96, 96, 10>>,                  \* a fence of three backticks
      <<32, 32, 32, 32, 99, 10>>,          \* four spaces and c
      <<61, 61, 61, 10>>,                  \* ===
      <<60, 112, 62, 10>>,                 \* <p>
      <<10>> }                             \* the blank line

\* the buffers of the byte-level runs: every text of at most two bytes over
\* the letter a, NUL, CR and LF, the empty buffer included
StreamBytes == {97, 0, 13, 10}

StreamChunks ==
    {<<>>} \cup {<<b>> : b \in StreamBytes} \cup {<<b, c>> : b, c \in StreamBytes}

\* the documents given whole to parse_document: every two lines of Lines
Documents == {l1 \o l2 : l1, l2 \in Lines}

\* ComrakOptions, the fields the parser reads; the block phase reads
\* ext_table only
Options == [ext_table : BOOLEAN, ext_tasklist : {FALSE}]

Init ==
    /\ parser \in {NewParser(o) : o \in Options}
    /\ fed = <<>>
    /\ pc = "new"
    /\ ret = None

\* parser.feed(chunk, false), as main does for each chunk read
Feed(chunks) ==
    /\ pc \in {"new", "feed"}
    /\ Ok(parser)
    /\ Len(fed) < MaxChunks
    /\ \E chunk \in chunks :
          /\ parser' = feed(parser, chunk, FALSE)
          /\ fed' = Append(fed, chunk)
    /\ pc' = "feed"
    /\ UNCHANGED ret

FeedLine == Feed(Lines)

FeedBytes == Feed(StreamChunks)

\* parser.finish()
Finish ==
    /\ pc \in {"new", "feed"}
    /\ Ok(parser)
    /\ parser' = finish(parser)
    /\ pc' = "finish"
    /\ UNCHANGED <<fed, ret>>

\* parse_document(arena, buffer, options) on a new parser
ParseDocument ==
    /\ pc = "new"
    /\ \E buffer \in Documents :
          /\ parser' = parse_document(buffer, parser.options)
          /\ fed' = <<buffer>>
    /\ pc' = "parse_document"
    /\ UNCHANGED ret

Next == FeedLine \/ Finish \/ ParseDocument

Spec == Init /\ [][Next]_vars

\* the byte-level runs: buffers of StreamChunks, default options
InitStream == Init /\ ~parser.options.ext_table

NextStream == FeedBytes \/ Finish

SpecStream == InitStream /\ [][NextStream]_vars

\* the runs on list items: whole lines of ItemLines, default options
ItemLines ==
    { <<45, 10>>,                          \* -
      <<45, 32, 120, 10>>,                 \* - x
      <<10>>,                              \* the blank line
      <<32, 32, 32, 10>>,                  \* three spaces
      <<32, 32, 99, 10>>,                  \* two spaces and c
      <<99, 10>>,                          \* c
      <<45, 32, 32, 120, 10>>,             \* - and two spaces
      <<45, 32, 32, 32, 32, 120, 10>>,     \* - and four spaces
      <<45, 32, 32, 32, 32, 32, 120, 10>>, \* - and five spaces
      <<45, 9, 120, 10>>,                  \* - TAB x
      <<49, 46, 32, 120, 10>>,             \* 1. x
      <<49, 48, 41, 32, 32, 120, 10>>,     \* 10) and two spaces
      <<45, 32, 32, 32, 10>>,              \* - and three spaces, no text
      <<32, 45, 9, 9, 120, 10>>,           \* SPACE - TAB TAB x
      <<32, 32, 45, 9, 120, 10>> }         \* two spaces, - TAB x

FeedItemLine == Feed(ItemLines)

NextItems == FeedItemLine \/ Finish

SpecItems == InitStream /\ [][NextItems]_vars

\* the runs on fenced code blocks: whole lines of FenceLines, default options
FenceLines ==
    { <<96, 96, 96, 10>>,                  \* a fence of three backticks
      <<96, 96, 96, 96, 10>>,              \* a fence of four backticks
      <<126, 126, 126, 10>>,               \* a fence of three tildes
      <<126, 126, 126, 126, 10>>,          \* a fence of four tildes
      <<32, 32, 32, 96, 96, 96, 10>>,      \* three spaces and three backticks
      <<32, 32, 32, 32, 96, 96, 96, 10>>,  \* four spaces and three backticks
      <<96, 96, 96, 32, 10>>,              \* three backticks and a space
      <<96, 96, 96, 120, 10>>,             \* three backticks and x
      <<96, 96, 96, 32, 120, 32, 10>>,     \* three backticks, a space, x, a space
      <<96, 96, 10>>,                      \* two backticks
      <<99, 10>>,                          \* c
      <<10>> }                             \* the blank line

FeedFenceLine == Feed(FenceLines)

NextFences == FeedFenceLine \/ Finish

SpecFences == InitStream /\ [][NextFences]_vars

\* the runs on HTML blocks: whole lines of HtmlLines, default options
HtmlLines ==
    { <<60, 112, 114, 101, 62, 10>>,               \* <pre>
      <<120, 60, 47, 112, 114, 101, 62, 10>>,      \* x</pre>
      <<60, 33, 45, 45, 10>>,                      \* <!--
      <<45, 45, 62, 10>>,                          \* -->
      <<60, 33, 45, 45, 32, 45, 45, 62, 10>>,      \* <!-- -->
      <<60, 63, 10>>,                              \* <?
      <<63, 62, 10>>,                              \* ?>
      <<60, 33, 65, 10>>,                          \* <!A
      <<99, 62, 10>>,                              \* c>
      <<60, 33, 91, 67, 68, 65, 84, 65, 91, 10>>,  \* <![CDATA[
      <<93, 93, 62, 10>>,                          \* ]]>
      <<60, 112, 62, 10>>,                         \* <p>
      <<60, 97, 62, 10>>,                          \* <a>
      <<99, 10>>,                                  \* c
      <<32, 32, 10>>,                              \* two spaces
      <<10>> }                                     \* the blank line

FeedHtmlLine == Feed(HtmlLines)

NextHtml == FeedHtmlLine \/ Finish

SpecHtml == InitStream /\ [][NextHtml]_vars

\* the runs on the openers of blocks: whole lines of OpenerLines, with and
\* without ext_table
OpenerLines ==
    { <<99, 10>>,                  \* c
      <<45, 45, 45, 10>>,          \* ---
      <<61, 61, 61, 10>>,          \* ===
      <<45, 32, 45, 32, 45, 10>>,  \* - - -
      <<42, 32, 42, 32, 42, 10>>,  \* * * *
      <<62, 32, 99, 10>>,          \* > c
      <<45, 32, 120, 10>>,         \* - x
      <<32, 32, 32, 32, 99, 10>>,  \* four spaces and c
      <<35, 32, 97, 10>>,          \* # a
      <<96, 96, 96, 10>>,          \* a fence of three backticks
      <<60, 112, 62, 10>>,         \* <p>
      <<97, 124, 98, 10>>,         \* a|b
      <<45, 124, 45, 10>>,         \* -|-
      <<10>> }                     \* the blank line

FeedOpenerLine == Feed(OpenerLines)

NextOpeners == FeedOpenerLine \/ Finish

SpecOpeners == Init /\ [][NextOpeners]_vars

\* the runs on lists: whole lines of ListLines, default options
ListLines ==
    { <<45, 32, 120, 10>>,                 \* - x
      <<42, 32, 120, 10>>,                 \* * x
      <<49, 46, 32, 120, 10>>,             \* 1. x
      <<49, 41, 32, 120, 10>>,             \* 1) x
      <<45, 32, 45, 32, 120, 10>>,         \* - - x
      <<32, 32, 99, 10>>,                  \* two spaces and c
      <<99, 10>>,                          \* c
      <<10>> }                             \* the blank line

FeedListLine == Feed(ListLines)

NextLists == FeedListLine \/ Finish

SpecLists == InitStream /\ [][NextLists]_vars

\* the runs on tables: whole lines of TableLines, with ext_table
TableLines ==
    { <<97, 124, 98, 10>>,                 \* a|b
      <<45, 124, 45, 10>>,                 \* -|-
      <<99, 124, 100, 10>>,                \* c|d
      <<32, 32, 99, 124, 100, 10>>,        \* two spaces and c|d
      <<62, 32, 97, 124, 98, 10>>,         \* > a|b
      <<62, 32, 45, 124, 45, 10>>,         \* > -|-
      <<62, 32, 99, 124, 100, 10>>,        \* > c|d
      <<99, 10>>,                          \* c
      <<10>> }                             \* the blank line

InitTables == Init /\ parser.options.ext_table

FeedTableLine == Feed(TableLines)

NextTables == FeedTableLine \/ Finish

SpecTables == InitTables /\ [][NextTables]_vars

\* the runs on line ends: buffers of EndChunks, each with at most one line
\* end, some without; default options
EndChunks ==
    { <<97>>,                              \* a
      <<10>>,                              \* LF
      <<97, 10>>,                          \* a LF
      <<61>>,                              \* =
      <<61, 10>>,                          \* = LF
      <<96, 96>>,                          \* two backticks
      <<96, 10>>,                          \* a backtick and LF
      <<96, 96, 96, 10>> }                 \* a fence of three backticks

FeedEndChunk == Feed(EndChunks)

NextEnds == FeedEndChunk \/ Finish

SpecEnds == InitStream /\ [][NextEnds]_vars

\* the runs on the phases of finish: whole lines of PhaseLines, default
\* options; finish is taken statement by statement, ret being the leaves
\* that parse_inlines was called on so far
PhaseLines ==
    { <<91, 97, 93, 10>>,                  \* [a]
      <<91, 97, 93, 58, 32, 98, 10>>,      \* [a]: b
      <<62, 32, 91, 97, 93, 10>>,          \* > [a]
      <<35, 32, 91, 97, 93, 10>>,          \* # [a]
      <<99, 10>>,                          \* c
      <<10>> }                             \* the blank line

FeedPhaseLine == Feed(PhaseLines)

\* finish, its first statement: the line buffer is processed as a line
FinishLine ==
    /\ pc \in {"new", "feed"}
    /\ Ok(parser)
    /\ parser' = IF parser.linebuf # <<>>
                 THEN process_line(take_linebuf(parser), parser.linebuf)
                 ELSE parser
    /\ pc' = "finalize_document"
    /\ ret' = <<>>
    /\ UNCHANGED fed

\* finalize_document, one turn of its loop
FinalizeCurrent ==
    /\ pc = "finalize_document"
    /\ Ok(parser)
    /\ ~spine_closed(parser)
    /\ parser' = finalize_current(parser)
    /\ UNCHANGED <<fed, pc, ret>>

\* finalize_document, self.finalize(self.root)
FinalizeRoot ==
    /\ pc = "finalize_document"
    /\ Ok(parser)
    /\ spine_closed(parser)
    /\ parser' = finalize(parser, Root).p
    /\ pc' = "process_inlines"
    /\ UNCHANGED <<fed, ret>>

\* process_inlines, one call of parse_inlines
ParseInlines ==
    /\ pc = "process_inlines"
    /\ Ok(parser)
    /\ Len(ret) < Len(process_inlines(parser.arena))
    /\ With(process_inlines(parser.arena)[Len(ret) + 1], LAMBDA node :
          /\ parser' = parse_inlines(parser, node)
          /\ ret' = Append(ret, node))
    /\ UNCHANGED <<fed, pc>>

\* finish, self.postprocess_text_nodes(self.root), and the return
FinishTextNodes ==
    /\ pc = "process_inlines"
    /\ Ok(parser)
    /\ Len(ret) = Len(process_inlines(parser.arena))
    /\ parser' = postprocess_text_nodes(parser, Root)
    /\ pc' = "finish"
    /\ UNCHANGED <<fed, ret>>

NextPhases ==
    \/ FeedPhaseLine \/ FinishLine \/ FinalizeCurrent \/ FinalizeRoot
    \/ ParseInlines \/ FinishTextNodes

SpecPhases == InitStream /\ [][NextPhases]_vars

\* the runs of single functions: reference definitions given one after the
\* other to parse_reference_inline of one parser, and labels, rows and cells
\* given to normalize_reference_label, row and unescape_pipes
MaxDefinitions == 2

Definitions ==
    { <<91, 97, 93, 58, 32, 98, 10>>,                          \* [a]: b
      <<91, 65, 93, 58, 32, 99, 10>>,                          \* [A]: c
      <<91, 32, 97, 32, 93, 58, 32, 100, 10>>,                 \* [ a ]: d
      <<91, 97, 93, 58, 32, 99, 32, 39, 116, 39, 10>>,         \* [a]: c 't'
      <<91, 98, 93, 58, 32, 99, 10, 34, 116, 34, 10>>,         \* [b]: c LF "t"
      <<91, 97, 93, 58, 32, 98, 10, 34, 116, 34, 32, 120, 10>>,  \* [a]: b LF "t" x
      <<91, 98, 93, 58, 32, 99, 10, 39, 117, 39, 120, 10>>,    \* [b]: c LF 'u'x
      <<91, 99, 93, 58, 32, 100, 32, 34, 116, 34, 32, 120, 10>>, \* [c]: d "t" x
      <<91, 97, 93, 58, 32, 60, 98, 62, 10>>,                  \* [a]: <b>
      <<91, 97, 93, 10>>,                                      \* [a]
      <<91, 93, 58, 32, 98, 10>> }                             \* []: b

Labels ==
    { <<70, 111, 111, 32, 66, 97, 114>>,                \* Foo Bar
      <<102, 111, 111, 32, 32, 32, 98, 97, 114>>,       \* foo   bar
      <<32, 102, 111, 111, 32, 98, 97, 114, 32>>,       \* SPACE foo bar SPACE
      <<102, 111, 111, 32, 98, 97, 114>>,               \* foo bar
      <<70, 79, 79, 9, 10, 98, 65, 82>>,                \* FOO TAB LF bAR
      <<97>>,                                           \* a
      <<32, 65, 9>>,                                    \* SPACE A TAB
      <<194, 160, 97>>,                                 \* U+00A0 a
      <<97, 194, 160>>,                                 \* a U+00A0
      <<97, 226, 128, 131, 32, 98>>,                    \* a U+2003 SPACE b
      <<195, 137, 32, 195, 169>>,                       \* U+00C9 SPACE U+00E9
      <<32, 32>>,                                       \* two spaces
      <<>> }

RowTexts ==
    { <<97, 124, 98, 10>>,                              \* a|b
      <<124, 32, 97, 32, 124, 32, 98, 32, 124, 10>>,    \* | a | b |
      <<32, 97, 124, 98, 10>>,                          \* SPACE a|b
      <<97, 32, 124, 32, 98, 10>>,                      \* a | b
      <<124, 97, 9, 124, 10>>,                          \* |a TAB |
      <<124, 45, 10>>,                                  \* |-
      <<45, 124, 58, 45, 58, 10>>,                      \* -|:-:
      <<97, 92, 124, 98, 124, 99, 10>>,                 \* a\|b|c
      <<97, 10>>,                                       \* a
      <<99, 10, 99, 10>>,                               \* c LF c
      <<124, 10>>,                                      \* |
      <<97, 124, 98>>,                                  \* a|b, no line end
      <<10>>,
      <<>> }

Cells ==
    { <<97>>,                                           \* a
      <<97, 92, 124, 98>>,                              \* a\|b
      <<92, 124, 92, 124>>,                             \* \|\|
      <<97, 92, 98>>,                                   \* a\b
      <<92, 92, 124>>,                                  \* \\|
      <<92, 42, 97, 92, 42>>,                           \* \*a\*
      <<97, 92>>,                                       \* a\
      <<92>>,                                           \* \
      <<32, 97, 32>>,                                   \* SPACE a SPACE
      <<>> }

FunctionOptions == [ext_table : {FALSE}, ext_tasklist : BOOLEAN]

InitFunctions ==
    /\ parser \in {NewParser(o) : o \in FunctionOptions}
    /\ fed = <<>>
    /\ pc = "new"
    /\ ret = None

\* self.parse_reference_inline(content), on the reference map of the parser
ParseReferenceInline ==
    /\ pc \in {"new", "parse_reference_inline"}
    /\ Len(fed) < MaxDefinitions
    /\ \E content \in Definitions :
          With(parse_reference_inline(parser.refmap, content), LAMBDA r :
            /\ parser' = [parser EXCEPT !.refmap = r.refmap]
            /\ ret' = r.pos
            /\ fed' = Append(fed, content))
    /\ pc' = "parse_reference_inline"

\* strings::normalize_reference_label(label)
NormalizeReferenceLabel ==
    /\ pc = "new"
    /\ \E label \in Labels :
          /\ ret' = normalize_reference_label(label)
          /\ fed' = <<label>>
    /\ pc' = "normalize_reference_label"
    /\ UNCHANGED parser

\* table::row(string)
Row ==
    /\ pc = "new"
    /\ \E string \in RowTexts :
          /\ ret' = row(string)
          /\ fed' = <<string>>
    /\ pc' = "row"
    /\ UNCHANGED parser

\* table::unescape_pipes(string)
UnescapePipes ==
    /\ pc = "new"
    /\ \E string \in Cells :
          /\ ret' = unescape_pipes(string)
          /\ fed' = <<string>>
    /\ pc' = "unescape_pipes"
    /\ UNCHANGED parser

\* the trees given to postprocess_text_node: the values of the nodes and
\* their parents, in document order; the Text node is the last node
MakeTree(values, parents) ==
    [n \in 1..Len(values) |->
        [make_block(values[n], 0, 0) EXCEPT
            !.open = FALSE, !.parent = parents[n],
            !.children = SelectSeq([k \in 1..Len(values) |-> k],
                                   LAMBDA k : parents[k] = n)]]

NodeOf(t) == [t |-> t]

TextSites ==
    { \* Document > List > Item > Paragraph > Text
      <<<<"Document", "List", "Item", "Paragraph">>, <<0, 1, 2, 3>>, 4>>,
      \* Document > List > Item > Paragraph > (Emph, Text)
      <<<<"Document", "List", "Item", "Paragraph", "Emph">>, <<0, 1, 2, 3, 4>>, 4>>,
      \* Document > List > Item > (Paragraph, Paragraph > Text)
      <<<<"Document", "List", "Item", "Paragraph", "Paragraph">>, <<0, 1, 2, 3, 3>>, 5>>,
      \* Document > List > Item > Paragraph > Emph > Text
      <<<<"Document", "List", "Item", "Paragraph", "Emph">>, <<0, 1, 2, 3, 4>>, 5>>,
      \* Document > List > Item > Heading > Text
      <<<<"Document", "List", "Item", "Heading">>, <<0, 1, 2, 3>>, 4>>,
      \* Document > BlockQuote > Paragraph > Text
      <<<<"Document", "BlockQuote", "Paragraph">>, <<0, 1, 2>>, 3>>,
      \* Document > Paragraph > Text
      <<<<"Document", "Paragraph">>, <<0, 1>>, 2>> }

TextSite(site, text) ==
    MakeTree([k \in 1..Len(site[1]) |-> NodeOf(site[1][k])]
                 \o <<[t |-> "Text", text |-> text]>>,
             Append(site[2], site[3]))

TaskTexts ==
    { <<91, 120, 93, 32, 97>>,              \* [x] a
      <<91, 88, 93>>,                       \* [X]
      <<91, 32, 93, 32, 97>>,               \* [ ] a
      <<91, 120, 93, 97>>,                  \* [x]a
      <<91, 121, 93, 32, 97>>,              \* [y] a
      <<32, 91, 120, 93, 32, 97>>,          \* SPACE [x] a
      <<12, 91, 32, 93, 32, 97>>,           \* FF [ ] a
      <<194, 160, 91, 88, 93, 32, 97>>,     \* U+00A0 [X] a
      <<91, 120, 93, 194, 160, 97>>,        \* [x] U+00A0 a
      <<97, 32, 91, 120, 93>>,              \* a [x]
      <<91, 120, 93, 10, 98>>,              \* [x] LF b
      <<91, 93, 32, 32, 97>>,               \* [] SPACE SPACE a
      <<91, 120>>,                          \* [x
      <<97>> }                              \* a

\* self.postprocess_text_node(n, root) on the Text node of a tree
PostprocessTextNode ==
    /\ pc = "new"
    /\ \E site \in TextSites, text \in TaskTexts :
          With(TextSite(site, text), LAMBDA a :
            /\ parser' = postprocess_text_node([parser EXCEPT !.arena = a], Len(a))
            /\ ret' = Len(a)
            /\ fed' = <<text>>)
    /\ pc' = "postprocess_text_node"

\* the values of the inline nodes of the trees below
TextA == [t |-> "Text", text |-> <<97>>]
TextUnderscore == [t |-> "Text", text |-> <<95>>]
TextB == [t |-> "Text", text |-> <<98>>]
TextTask == [t |-> "Text", text |-> <<91, 120, 93>>]
TextSpace == [t |-> "Text", text |-> <<32>>]
LinkTo == [t |-> "Link", url |-> <<99>>, title |-> <<>>]
ImageOf == [t |-> "Image", url |-> <<99>>, title |-> <<>>]

\* trees as the inline phase leaves them, the values of the nodes and their
\* parents: a run of literal text, a delimiter run that matched nothing and
\* more text are three Text nodes
InlineTrees ==
    { \* a_b
      <<<<NodeOf("Document"), NodeOf("Paragraph"), TextA, TextUnderscore, TextB>>,
        <<0, 1, 2, 2, 2>>>>,
      \* a*_b*b
      <<<<NodeOf("Document"), NodeOf("Paragraph"), TextA, NodeOf("Emph"),
          TextUnderscore, TextB, TextB>>,
        <<0, 1, 2, 2, 4, 4, 2>>>>,
      \* [a_](c)
      <<<<NodeOf("Document"), NodeOf("Paragraph"), LinkTo, TextA, TextUnderscore>>,
        <<0, 1, 2, 3, 3>>>>,
      \* ![a_](c)
      <<<<NodeOf("Document"), NodeOf("Paragraph"), ImageOf, TextA, TextUnderscore>>,
        <<0, 1, 2, 3, 3>>>>,
      \* a[b](c)_b
      <<<<NodeOf("Document"), NodeOf("Paragraph"), TextA, LinkTo, TextB,
          TextUnderscore, TextB>>,
        <<0, 1, 2, 2, 4, 2, 2>>>>,
      \* a, a line end, b_
      <<<<NodeOf("Document"), NodeOf("Paragraph"), TextA, NodeOf("SoftBreak"), TextB,
          TextUnderscore>>,
        <<0, 1, 2, 2, 2, 2>>>>,
      \* two paragraphs a_ and _b
      <<<<NodeOf("Document"), NodeOf("Paragraph"), NodeOf("Paragraph"), TextA,
          TextUnderscore, TextUnderscore, TextB>>,
        <<0, 1, 1, 2, 2, 3, 3>>>>,
      \* - [x] _ in an item
      <<<<NodeOf("Document"), NodeOf("List"), NodeOf("Item"), NodeOf("Paragraph"),
          TextTask, TextSpace, TextUnderscore>>,
        <<0, 1, 2, 3, 4, 4, 4>>>>,
      \* a
      <<<<NodeOf("Document"), NodeOf("Paragraph"), TextA>>, <<0, 1, 2>>>> }

\* self.postprocess_text_nodes(self.root), as finish calls it, on a tree
PostprocessTextNodes ==
    /\ pc = "new"
    /\ \E tree \in InlineTrees :
          /\ parser' = postprocess_text_nodes(
                           [parser EXCEPT !.arena = MakeTree(tree[1], tree[2])], Root)
          /\ ret' = MakeTree(tree[1], tree[2])
          /\ fed' = <<>>
    /\ pc' = "postprocess_text_nodes"

\* the command lines and files main is run with: the FILE arguments, and the
\* text of each file; standard input is one of StdinTexts
FileArgs == {<<>>, <<"a.md">>, <<"a.md", "b.md">>}

FileSystem ==
    [f \in {"a.md", "b.md"} |->
        IF f = "a.md" THEN <<35, 32, 97, 32, 35, 10>> ELSE <<62, 32, 97, 10>>]

StdinTexts == Lines \cup {<<>>}

\* tp.read_from(&mut std::io::stdin()): each buffer read goes to process,
\* which feeds it to the parser; at the end of the stream finish is called
read_from(p, stream) == finish(IF stream = <<>> THEN p ELSE feed(p, stream, FALSE))

\* main: the FILE arguments are declared and not read; the document is read
\* from standard input.  ret is the command line and standard input the
\* process was started with, fed the buffers its parser was fed
Main ==
    /\ pc = "new"
    /\ \E file \in FileArgs, stdin \in StdinTexts :
          /\ parser' = read_from(parser, stdin)
          /\ fed' = IF stdin = <<>> THEN <<>> ELSE <<stdin>>
          /\ ret' = [file |-> file, stdin |-> stdin]
    /\ pc' = "main"

\* the lines given to parse_list_marker, each with the offset of its first
\* non-space byte
MarkerLines ==
    { <<45, 32, 120, 10>>,                                         \* - x
      <<42, 32, 120, 10>>,                                         \* * x
      <<43, 32, 120, 10>>,                                         \* + x
      <<32, 32, 45, 32, 120, 10>>,                                 \* two spaces, - x
      <<45, 120, 10>>,                                             \* -x
      <<45, 10>>,                                                  \* -
      <<45, 32, 10>>,                                              \* - and a space
      <<42, 9, 10>>,                                               \* * TAB
      <<45, 9, 120, 10>>,                                          \* - TAB x
      <<45, 12, 120, 10>>,                                         \* - FF x
      <<49, 46, 32, 120, 10>>,                                     \* 1. x
      <<49, 41, 32, 120, 10>>,                                     \* 1) x
      <<50, 46, 32, 120, 10>>,                                     \* 2. x
      <<48, 49, 46, 32, 120, 10>>,                                 \* 01. x
      <<49, 50, 51, 52, 53, 54, 55, 56, 57, 46, 32, 120, 10>>,     \* 123456789. x
      <<49, 50, 51, 52, 53, 54, 55, 56, 57, 48, 46, 32, 120, 10>>, \* 1234567890. x
      <<49, 46, 10>>,                                              \* 1.
      <<49, 46, 32, 10>>,                                          \* 1. and a space
      <<50, 46, 10>>,                                              \* 2.
      <<49, 46, 120, 10>>,                                         \* 1.x
      <<49, 58, 32, 120, 10>>,                                     \* 1: x
      <<49, 32, 120, 10>>,                                         \* 1 x
      <<95, 32, 120, 10>>,                                         \* _ x
      <<97, 46, 32, 120, 10>>,                                     \* a. x
      <<99, 10>> }                                                 \* c

\* parse_list_marker(line, self.first_nonspace, interrupts_paragraph); ret
\* holds the arguments beside the line, and the marker returned
ParseListMarker ==
    /\ pc = "new"
    /\ \E line \in MarkerLines, interrupts_paragraph \in BOOLEAN :
          With(skip_space_or_tab(line, 0), LAMBDA pos :
            /\ ret' = [pos |-> pos, interrupts_paragraph |-> interrupts_paragraph,
                       marker |-> parse_list_marker(line, pos, interrupts_paragraph)]
            /\ fed' = <<line>>)
    /\ pc' = "parse_list_marker"
    /\ UNCHANGED parser

NextFunctions ==
    \/ ParseReferenceInline \/ NormalizeReferenceLabel \/ Row \/ UnescapePipes
    \/ PostprocessTextNode \/ Main \/ ParseListMarker
    \/ PostprocessTextNodes

SpecFunctions == InitFunctions /\ [][NextFunctions]_vars

\* ------------------------------------------------------------------ properties
(***************************************************************************)
(* The properties below are stated over the parser as the state machine    *)
(* leaves it.  Nodes are the nodes allocated so far, Tree the nodes        *)
(* reachable from the root.                                                *)
(***************************************************************************)
Nodes == 1..Len(parser.arena)

Tree == Descendants(parser.arena, Root)

\* the text fed so far
Input == Concat(fed)

\* the lines of text s from position i, cur being the part of the line read
\* so far: CR, LF and CRLF each end one line, NUL reads as U+FFFD, and the
\* text after the last line end is a line only when the input is at its end
RECURSIVE InputLines(_, _, _, _)
InputLines(s, i, cur, final) ==
    IF i >= Len(s) THEN (IF final /\ cur # <<>> THEN <<Append(cur, 10)>> ELSE <<>>)
    ELSE IF At(s, i) = 10 THEN <<Append(cur, 10)>> \o InputLines(s, i + 1, <<>>, final)
    ELSE IF At(s, i) = 13
    THEN <<Append(cur, 10)>>
         \o InputLines(s, IF i + 1 < Len(s) /\ At(s, i + 1) = 10 THEN i + 2 ELSE i + 1,
                       <<>>, final)
    ELSE IF At(s, i) = 0 THEN InputLines(s, i + 1, cur \o REPLACEMENT_CHARACTER, final)
    ELSE InputLines(s, i + 1, Append(cur, At(s, i)), final)

\* line ends with one LF and holds no other CR or LF
SingleLine(line) ==
    /\ line # <<>>
    /\ line[Len(line)] = 10
    /\ \A k \in 1..(Len(line) - 1) : line[k] \notin {10, 13}

\* C1: streaming equivalence.  Feeding the chunks in order does not fail
\* where one feed(s, true) of their concatenation and finish do not, and
\* after finish the lines processed and the tree are those of the one feed.
StreamingEquivalence ==
    With(parse_document(Input, parser.options), LAMBDA whole :
      /\ Ok(whole) => Ok(parser)
      /\ pc = "finish" /\ Ok(parser) =>
            /\ Ok(whole)
            /\ parser.lines = whole.lines
            /\ parser.arena = whole.arena)

\* C2: the parser is total.  No feed and no finish reaches a fail-fast
\* condition: finalize or add_line on a closed node, an unwrap of a missing
\* parent, an index out of range.
ParserIsTotal == Ok(parser)

\* C3: parse_document returns, and returns the root it allocated, a Document;
\* in particular the opener loop ends on every line.
ParseDocumentReturnsRoot ==
    pc = "parse_document" =>
        /\ Ok(parser)
        /\ parser.arena[Root].value.t = "Document"
        /\ parser.arena[Root].parent = 0

\* C4: after finish has returned, every node reachable from the root is
\* closed.
AllClosedAfterFinish ==
    (pc \in {"finish", "parse_document"} /\ Ok(parser)) =>
        \A n \in Tree : ~parser.arena[n].open

\* the chain of parents from node n to the root: each node on it is open and
\* is a child of its parent
RECURSIVE OpenChain(_, _)
OpenChain(a, n) ==
    /\ a[n].open
    /\ \/ n = Root
       \/ /\ a[n].parent # 0
          /\ \E k \in 1..Len(a[a[n].parent].children) : a[a[n].parent].children[k] = n
          /\ OpenChain(a, a[n].parent)

\* C5: the spine.  After every processed line and until finish the root is
\* open, and self.current and every node from it up to the root are open and
\* attached.
SpineInvariant ==
    (pc = "feed" /\ Ok(parser)) =>
        /\ parser.arena[Root].open
        /\ OpenChain(parser.arena, parser.current)

HeadingLevels ==
    \A n \in Nodes :
        parser.arena[n].value.t = "Heading" => parser.arena[n].value.level \in 1..6

\* the run of '#' in line from position i
RECURSIVE Hashes(_, _)
Hashes(line, i) == IF i < Len(line) /\ At(line, i) = 35 THEN 1 + Hashes(line, i + 1) ELSE 0

\* the strict ATX rule at position i of line: 1 to 6 '#', then a space, a
\* tab or the end of the line
StrictAtx(line, i) ==
    /\ Hashes(line, i) \in 1..6
    /\ i + Hashes(line, i) < Len(line)
    /\ At(line, i + Hashes(line, i)) \in {32, 9, 10, 13}

\* C8: with default options an ATX heading is opened only by a line that
\* follows the strict rule where the heading starts.
StrictAtxOnly ==
    ~parser.options.ext_table =>
        \A n \in Nodes :
            (parser.arena[n].value.t = "Heading" /\ ~parser.arena[n].value.setext) =>
                StrictAtx(parser.lines[parser.arena[n].start_line],
                          parser.arena[n].start_column - 1)

\* the lines "\t- x" and " \t- x"
TabbedItems == {<<9, 45, 32, 120, 10>>, <<32, 9, 45, 32, 120, 10>>}

\* one of TabbedItems is the only line fed, and finish has been called
TabbedItemParsed == pc = "finish" /\ Len(fed) = 1 /\ fed[1] \in TabbedItems /\ Ok(parser)

\* C9 as stated: each of the two lines opens a bullet List with one Item
\* whose paragraph has the content "x".
TabbedItemIsListItem ==
    TabbedItemParsed =>
        \E l, i, q \in Nodes :
            /\ parser.arena[l].value.t = "List"
            /\ parser.arena[l].value.nl.list_type = "Bullet"
            /\ parser.arena[Root].children = <<l>>
            /\ parser.arena[l].children = <<i>>
            /\ parser.arena[i].value.t = "Item"
            /\ parser.arena[i].children = <<q>>
            /\ parser.arena[q].value.t = "Paragraph"
            /\ parser.arena[q].content \in {<<120>>, <<120, 10>>}

\* C9: with a tab stop of 4 each of the two lines is indented by 4 columns
\* and is an indented code block with the literal "- x\n", the only child of
\* the document.
TabbedItemIsCode ==
    TabbedItemParsed =>
        /\ Len(parser.arena) = 2
        /\ parser.arena[Root].children = <<2>>
        /\ parser.arena[2].value.t = "CodeBlock"
        /\ ~parser.arena[2].value.fenced
        /\ parser.arena[2].value.literal = <<45, 32, 120, 10>>

\* C9, its case: " \t- x" has been parsed and is a code block
TabbedItemSeen ==
    /\ TabbedItemParsed
    /\ fed[1] = <<32, 9, 45, 32, 120, 10>>
    /\ parser.arena[2].value.t = "CodeBlock"

\* C10: CR, LF and CRLF each end exactly one line.  The lines handed to
\* process_line by the time finish returns are the lines of the input in
\* order, each ending with one LF and holding no other CR or LF, wherever
\* the chunks were cut.
OneLinePerTerminator ==
    (pc = "finish" /\ Ok(parser)) =>
        /\ parser.lines = InputLines(Input, 0, <<>>, TRUE)
        /\ \A k \in 1..Len(parser.lines) : SingleLine(parser.lines[k])

\* C11: every NUL of the input is U+FFFD in the line that reaches
\* process_line, in its place, and nothing else of the line is changed: by
\* the time finish returns, the k-th line processed is the k-th line of the
\* input with each NUL replaced.
NulReplacedInPlace ==
    (pc = "finish" /\ Ok(parser)) =>
        With(InputLines(Input, 0, <<>>, TRUE), LAMBDA expected :
          \A k \in 1..Len(parser.lines) :
              k <= Len(expected) /\ parser.lines[k] = expected[k])

\* the entry a reference definition makes in an empty reference map: the set
\* of that one entry, or the empty set when the text is no definition
Registers(content) == parse_reference_inline({}, content).refmap

\* C12: first definition wins.  After any sequence of definitions the map
\* has one entry for each label defined, and it holds the url and title of
\* the earliest definition with that normalized label.
FirstDefinitionWins ==
    pc = "parse_reference_inline" =>
        /\ \A e1, e2 \in parser.refmap : e1.label = e2.label => e1 = e2
        /\ \A k \in 1..Len(fed) : \A d \in Registers(fed[k]) :
              \E e \in parser.refmap : e.label = d.label
        /\ \A e \in parser.refmap :
              \E k \in 1..Len(fed) :
                  /\ Registers(fed[k]) = {e}
                  /\ \A j \in 1..(k - 1) : \A d \in Registers(fed[j]) : d.label # e.label

\* C12, its case: the second definition has the label of the first and
\* another url, and the map is as the first left it
FirstDefinitionKept ==
    /\ pc = "parse_reference_inline"
    /\ Len(fed) = 2
    /\ ret # None
    /\ parser.refmap = Registers(fed[1])
    /\ \E e \in Registers(fed[1]) : \E d \in Registers(fed[2]) :
          d.label = e.label /\ d.url # e.url

\* the words of a label: its runs of chars that are not whitespace, each in
\* lower case; cs are the chars left and word the word being read
RECURSIVE LabelWords(_, _)
LabelWords(cs, word) ==
    IF cs = <<>> THEN (IF word = <<>> THEN <<>> ELSE <<word>>)
    ELSE IF is_whitespace(Head(cs))
    THEN (IF word = <<>> THEN <<>> ELSE <<word>>) \o LabelWords(Tail(cs), <<>>)
    ELSE LabelWords(Tail(cs), word \o encode_utf8(to_lowercase(Head(cs))))

\* C13: normalize_reference_label gives one key to labels that differ only
\* in letter case and in whitespace (inside, leading or trailing), that is to
\* labels of the same words, and applied to its result it gives that result.
NormalizedLabelsAgree ==
    pc = "normalize_reference_label" =>
        /\ normalize_reference_label(ret) = ret
        /\ \A other \in Labels :
              LabelWords(chars(other), <<>>) = LabelWords(chars(fed[1]), <<>>) =>
                  normalize_reference_label(other) = ret

\* the definitions whose title candidate, on the line after the url, is not
\* followed by the end of the line, while the url is
TitleRetries ==
    { <<91, 97, 93, 58, 32, 98, 10, 34, 116, 34, 32, 120, 10>>,   \* [a]: b LF "t" x
      <<91, 98, 93, 58, 32, 99, 10, 39, 117, 39, 120, 10>> }      \* [b]: c LF 'u'x

\* the number of bytes of the first line of content, its line end included
FirstLineLength(content) ==
    CHOOSE k \in 1..Len(content) :
        content[k] = 10 /\ \A j \in 1..(k - 1) : content[j] # 10

\* C14: when the title candidate is not followed by the end of the line but
\* the url is, the definition is registered with an empty title, and the
\* text consumed is the line of the url.
TitleRetryHasNoTitle ==
    (pc = "parse_reference_inline" /\ Len(fed) = 1 /\ fed[1] \in TitleRetries) =>
        /\ ret = FirstLineLength(fed[1])
        /\ parser.refmap # {}
        /\ \A e \in parser.refmap : e.title = <<>>

\* a fence of three backticks
Fence == <<96, 96, 96, 10>>

\* the first line fed opened a fenced code block and no later line is a fence
FenceLeftOpen ==
    /\ pc \in {"feed", "finish"}
    /\ Len(fed) >= 1
    /\ fed[1] = Fence
    /\ \A k \in 2..Len(fed) : fed[k] # Fence

\* C15: a fenced code block opened at document level and never closed is
\* open until the end of the input.  It is the only block, every later line
\* is appended to it, and finish finalizes it: its literal is those lines.
UnclosedFenceTakesAll ==
    FenceLeftOpen =>
        /\ Ok(parser)
        /\ Len(parser.arena) = 2
        /\ parser.arena[Root].children = <<2>>
        /\ parser.arena[2].value.t = "CodeBlock"
        /\ parser.arena[2].value.fenced
        /\ pc = "feed" =>
              /\ parser.arena[2].open
              /\ parser.current = 2
              /\ parser.arena[2].content = <<10>> \o Concat(SubSeq(fed, 2, Len(fed)))
        /\ pc = "finish" =>
              /\ ~parser.arena[2].open
              /\ parser.arena[2].value.literal = Concat(SubSeq(fed, 2, Len(fed)))

\* C15, its case: after the fence a heading line and a list item were fed,
\* and finish has closed the code block that holds them
UnclosedFenceSeen ==
    /\ FenceLeftOpen
    /\ pc = "finish"
    /\ fed = <<Fence, <<35, 32, 97, 32, 35, 10>>, <<45, 32, 120, 10>>>>
    /\ parser.arena[2].value.literal = <<35, 32, 97, 32, 35, 10, 45, 32, 120, 10>>

\* children with node q replaced by node n
Replaced(children, q, n) ==
    [k \in 1..Len(children) |-> IF children[k] = q THEN n ELSE children[k]]

\* table is a Table whose first child is a header row of one TableCell for
\* each of its columns
HasHeaderRow(a, table) ==
    /\ a[table].children # <<>>
    /\ With(a[table].children[1], LAMBDA header :
         /\ a[header].value = [t |-> "TableRow", header |-> TRUE]
         /\ Len(a[header].children) = Len(a[table].value.alignments)
         /\ \A k \in 1..Len(a[header].children) :
               a[a[header].children[k]].value.t = "TableCell")

\* the line of this step promoted paragraph q to the new Table n: n is where
\* q was under the parent of q, q is in the tree no more, n has its header
PromotedInPlace(q, n) ==
    With(parser.arena[q].parent, LAMBDA parent :
      /\ Ok(parser')
      /\ parser.arena[q].value.t = "Paragraph"
      /\ parser'.arena[n].parent = parent
      /\ parser'.arena[parent].children = Replaced(parser.arena[parent].children, q, n)
      /\ parser'.arena[q].parent = 0
      /\ HasHeaderRow(parser'.arena, n))

\* C16: when a line promotes the open paragraph to a table, the Table takes
\* the place of the paragraph under its parent, the paragraph leaves the
\* tree, and the table has a header row of one cell for each column.
TableTakesPlaceOfParagraph ==
    [][\A n \in (Len(parser.arena) + 1)..Len(parser'.arena) :
          (pc = "feed" /\ pc' = "feed" /\ parser'.arena[n].value.t = "Table") =>
              PromotedInPlace(parser.current, n)]_vars

\* text is one line: its only line end is the LF that ends it
OneLine(text) ==
    /\ text # <<>>
    /\ text[Len(text)] = 10
    /\ \A k \in 1..(Len(text) - 1) : text[k] \notin {10, 13}

\* line from its first byte that is neither a space nor a tab
RECURSIVE Unindented(_)
Unindented(line) ==
    IF line # <<>> /\ is_space_or_tab(Head(line)) THEN Unindented(Tail(line)) ELSE line

\* content is one line and a row, and line is an alignment row of as many
\* cells
HeaderAndMarker(content, line) ==
    /\ OneLine(content)
    /\ row(content).ok
    /\ table_start(line, 0) # None
    /\ row(line).ok
    /\ Len(row(content).cells) = Len(row(line).cells)

\* C17: a paragraph is promoted to a table only when its content is a single
\* line that is a row and the line fed is an alignment row of as many cells;
\* a paragraph of two or more lines is never promoted.
PromotesSingleLineOnly ==
    [][\A n \in (Len(parser.arena) + 1)..Len(parser'.arena) :
          (pc = "feed" /\ pc' = "feed" /\ parser'.arena[n].value.t = "Table") =>
              HeaderAndMarker(parser.arena[parser.current].content,
                              Unindented(fed'[Len(fed')]))]_vars

\* the contents of the TableCell children of row node r
CellContents(a, r) == [k \in 1..Len(a[r].children) |-> a[a[r].children[k]].content]

\* cells cut or padded with empty cells to n cells
CutOrPadded(cells, n) == [k \in 1..n |-> IF k <= Len(cells) THEN cells[k] ELSE <<>>]

\* C18: every TableRow, header or body, has as many TableCell children as
\* its table has alignments; the cells of a body row are the cells of its
\* line, cut to that number or padded with empty cells.
RowsHaveAllCells ==
    Ok(parser) =>
        \A r \in Nodes :
            parser.arena[r].value.t = "TableRow" =>
                With(parser.arena[parser.arena[r].parent].value, LAMBDA table :
                  /\ table.t = "Table"
                  /\ Len(parser.arena[r].children) = Len(table.alignments)
                  /\ \A k \in 1..Len(parser.arena[r].children) :
                        parser.arena[parser.arena[r].children[k]].value.t = "TableCell"
                  /\ ~parser.arena[r].value.header =>
                        CellContents(parser.arena, r) =
                            CutOrPadded(row(parser.lines[parser.arena[r].start_line]).cells,
                                        Len(table.alignments)))

\* C18, its case: under the header a|b the body row of the line c has the
\* cell c and an empty cell
ShortRowPadded ==
    /\ Ok(parser)
    /\ fed = <<<<97, 124, 98, 10>>, <<45, 124, 45, 10>>, <<99, 10>>>>
    /\ \E r \in Nodes :
          /\ parser.arena[r].value = [t |-> "TableRow", header |-> FALSE]
          /\ CellContents(parser.arena, r) = <<<<99>>, <<>>>>

\* C19: every cell that row produces is trimmed: it neither starts nor ends
\* with an ASCII whitespace character.
CellsAreTrimmed ==
    (pc = "row" /\ ret.ok) =>
        \A k \in 1..Len(ret.cells) :
            ret.cells[k] # <<>> =>
                /\ ~isspace(ret.cells[k][1])
                /\ ~isspace(ret.cells[k][Len(ret.cells[k])])

\* text with each \| turned into | and every other byte kept
RECURSIVE PipesUnescaped(_)
PipesUnescaped(s) ==
    IF s = <<>> THEN <<>>
    ELSE IF Len(s) >= 2 /\ s[1] = 92 /\ s[2] = 124
    THEN <<124>> \o PipesUnescaped(SubSeq(s, 3, Len(s)))
    ELSE <<s[1]>> \o PipesUnescaped(Tail(s))

\* C20: unescape_pipes turns each \| into | and leaves every other character
\* of the cell as it is, a backslash before another character included.
OnlyPipesUnescaped ==
    pc = "unescape_pipes" => ret = PipesUnescaped(fed[1])


(***************************************************************************)
(* Task lists.  After PostprocessTextNode, ret is the Text node the        *)
(* post-pass was given and fed holds the string it had.                    *)
(***************************************************************************)
TaskText == chars(fed[1])

Checkboxes ==
    {n \in DOMAIN parser.arena : parser.arena[n].value.t = "HtmlInline"}

CheckboxBefore == previous_sibling(parser.arena, ret) \in Checkboxes

\* the Text node was the first child of a Paragraph that is the first child
\* of an Item
FirstInItem ==
    LET a == parser.arena
        par == a[ret].parent
    IN  /\ a[par].value.t = "Paragraph"
        /\ Head(SelectSeq(a[par].children, LAMBDA c : c \notin Checkboxes)) = ret
        /\ a[par].parent # 0
        /\ a[a[par].parent].value.t = "Item"
        /\ first_child(a, a[par].parent) = par

\* [x], [X] or [ ] at character k of cs, followed by whitespace or the end
MarkerAt(cs, k) ==
    /\ Len(cs) >= k + 2
    /\ cs[k] = 91 /\ cs[k + 1] \in {120, 88, 32} /\ cs[k + 2] = 93
    /\ (Len(cs) = k + 2 \/ is_whitespace(cs[k + 3]))

\* the number of whitespace characters cs begins with
RECURSIVE LeadingSpace(_)
LeadingSpace(cs) ==
    IF cs # <<>> /\ is_whitespace(Head(cs)) THEN 1 + LeadingSpace(Tail(cs)) ELSE 0

\* C21 as stated: a checkbox is inserted before the Text node exactly when
\* ext_tasklist is on, the node is the first child of a Paragraph that is
\* the first child of an Item, and its text begins with [x], [X] or [ ]
\* followed by whitespace or the end of the text.
TaskMarkerAtStart ==
    pc = "postprocess_text_node" =>
        (CheckboxBefore <=>
            parser.options.ext_tasklist /\ FirstInItem /\ MarkerAt(TaskText, 1))

\* C21, amended: the marker may follow leading whitespace.  A checkbox is
\* inserted immediately before the Text node exactly when ext_tasklist is
\* on, the node is the first child of a Paragraph that is the first child of
\* an Item, and its text is optional whitespace, then [x], [X] or [ ], then
\* whitespace or the end; the leading whitespace and the marker are removed
\* from the text, the checkbox is checked exactly for x and X, and in every
\* other case the tree and the text are left as they were.
TaskMarkerAfterSpace ==
    pc = "postprocess_text_node" =>
        LET a == parser.arena
            k == LeadingSpace(TaskText) + 1
            task == parser.options.ext_tasklist /\ FirstInItem /\ MarkerAt(TaskText, k)
        IN  /\ Ok(parser)
            /\ task =>
                  /\ Checkboxes = {previous_sibling(a, ret)}
                  /\ a[previous_sibling(a, ret)].value.literal =
                        IF TaskText[k + 1] = 32 THEN UncheckedBox ELSE CheckedBox
                  /\ chars(a[ret].value.text) = SubSeq(TaskText, k + 3, Len(TaskText))
            /\ ~task => Checkboxes = {} /\ a[ret].value.text = fed[1]

\* a text beginning with whitespace got a checkbox
TaskMarkerAfterSpaceSeen ==
    /\ pc = "postprocess_text_node"
    /\ CheckboxBefore
    /\ LeadingSpace(TaskText) > 0


(***************************************************************************)
(* The command-line program.                                               *)
(***************************************************************************)
\* the texts of the files named, one after the other
RECURSIVE FileTexts(_)
FileTexts(file) ==
    IF file = <<>> THEN <<>> ELSE FileSystem[Head(file)] \o FileTexts(Tail(file))

RECURSIVE Fed(_)
Fed(chunks) == IF chunks = <<>> THEN <<>> ELSE Head(chunks) \o Fed(Tail(chunks))

\* C22: the program parses the files named as arguments when any are given,
\* and standard input only when none is given.
InputFromFilesOrStdin ==
    pc = "main" =>
        Fed(fed) = IF ret.file = <<>> THEN ret.stdin ELSE FileTexts(ret.file)


(***************************************************************************)
(* Lazy continuation.  On a step that feeds one line, Checked is the       *)
(* result of check_open_blocks on the line (its container is the last      *)
(* matched container) and OpenedOnLine the result of open_new_blocks.      *)
(***************************************************************************)
LineFed == fed'[Len(fed')]

Checked == check_open_blocks(start_line(parser, LineFed), LineFed)

OpenedOnLine == open_new_blocks(Checked.p, Checked.container, LineFed, Checked.all_matched)

\* the step feeds a line while self.current is a Paragraph that is not the
\* last matched container
UnmatchedParagraph ==
    /\ pc' = "feed" /\ Ok(parser')
    /\ Checked.some
    /\ parser.arena[parser.current].value.t = "Paragraph"
    /\ parser.current # Checked.container

NewBlockOpened ==
    \/ OpenedOnLine.container # Checked.container
    \/ Len(OpenedOnLine.p.arena) # Len(parser.arena)

LazyLine ==
    /\ UnmatchedParagraph
    /\ ~find_first_nonspace(OpenedOnLine.p, LineFed).blank
    /\ ~NewBlockOpened

\* the only change of the tree is that the rest of the line, from some
\* offset up to its first non-space character, is added to self.current
OnlyContentChanged ==
    LET cur == parser.current
    IN  /\ parser'.current = cur
        /\ Len(parser'.arena) = Len(parser.arena)
        /\ \A n \in DOMAIN parser.arena : n # cur => parser'.arena[n] = parser.arena[n]
        /\ \E k \in 0..Len(LineFed) :
              /\ \A i \in 0..(k - 1) : is_space_or_tab(At(LineFed, i))
              /\ parser'.arena[cur] =
                    [parser.arena[cur] EXCEPT !.content = @ \o From(LineFed, k)]

\* C23: on a lazy continuation line (not blank, self.current a Paragraph
\* that is not the last matched container, no new block opened) the line is
\* appended to self.current, no node is finalized or created and
\* self.current is unchanged; a line that opens a new block is not added to
\* the unmatched paragraph.
LazyContinuationFrame ==
    [][/\ LazyLine => OnlyContentChanged
       /\ UnmatchedParagraph /\ NewBlockOpened =>
             parser'.arena[parser.current].content = parser.arena[parser.current].content
             \/ ~parser'.arena[parser.current].open]_vars

\* "> a" and then "c": the line c was added to the paragraph of the quote
LazyLineSeen ==
    /\ pc = "feed" /\ Ok(parser)
    /\ fed = <<<<62, 32, 97, 10>>, <<99, 10>>>>
    /\ parser.arena[parser.current].value.t = "Paragraph"
    /\ parser.arena[parser.current].content = <<97, 10, 99, 10>>
    /\ parser.arena[parser.arena[parser.current].parent].value.t = "BlockQuote"


(***************************************************************************)
(* List items.  ColumnAt is the column of an offset of a line, IndentOf    *)
(* the columns of whitespace a line begins with.                           *)
(***************************************************************************)
RECURSIVE ColumnAt(_, _)
ColumnAt(line, k) ==
    IF k = 0 THEN 0
    ELSE With(ColumnAt(line, k - 1), LAMBDA c :
           IF At(line, k - 1) = 9 THEN c + (TAB_STOP - (c % TAB_STOP)) ELSE c + 1)

IndentOf(line) == ColumnAt(line, skip_space_or_tab(line, 0))

BlankLine(line) == is_line_end_char(At(line, skip_space_or_tab(line, 0)))

RECURSIVE AncestorsOrSelf(_, _)
AncestorsOrSelf(a, n) == IF n = 0 THEN {} ELSE {n} \cup AncestorsOrSelf(a, a[n].parent)

\* the open Item of the open List at the end of the document, or 0: the
\* Item check_open_blocks tests against the line from its first column
TopItem ==
    LET a == parser.arena
        list == last_child(a, Root)
    IN  IF /\ list # 0 /\ a[list].open /\ a[list].value.t = "List"
           /\ last_child_is_open(a, list)
        THEN last_child(a, list) ELSE 0

\* C24: an open Item continues on a line exactly when the indent of the line
\* is at least marker_offset + padding, or the line is blank and the Item
\* has a child; an Item without children is not continued by a blank line.
ItemContinues ==
    [][pc' = "feed" /\ Ok(parser') /\ TopItem # 0 =>
          LET item == parser.arena[TopItem]
              nl == item.value.nl
              continued == Checked.some /\ TopItem \in AncestorsOrSelf(parser.arena, Checked.container)
          IN  /\ continued <=>
                    \/ IndentOf(LineFed) >= nl.marker_offset + nl.padding
                    \/ BlankLine(LineFed) /\ item.children # <<>>
              /\ BlankLine(LineFed) /\ item.children = <<>> => ~continued]_vars


(***************************************************************************)
(* Closing fences.                                                         *)
(***************************************************************************)
\* the open fenced code block that is the last child of the document, or 0
TopFence ==
    LET a == parser.arena
        code == last_child(a, Root)
    IN  IF /\ code # 0 /\ a[code].open /\ a[code].value.t = "CodeBlock"
           /\ a[code].value.fenced
        THEN code ELSE 0

\* the number of bytes c the line has from offset k on
RECURSIVE RunOf(_, _, _)
RunOf(line, k, c) ==
    IF k < Len(line) /\ At(line, k) = c THEN 1 + RunOf(line, k + 1, c) ELSE 0

\* the line is a closing fence for an opening fence of length fence_length
\* of fence_char: at most three columns of indentation, at least
\* fence_length of fence_char, then spaces and tabs only
ClosesFence(line, fence_char, fence_length) ==
    LET k == skip_space_or_tab(line, 0)
        n == RunOf(line, k, fence_char)
    IN  /\ IndentOf(line) <= 3
        /\ n >= fence_length
        /\ is_line_end_char(At(line, skip_space_or_tab(line, k + n)))

TopHtml ==
    LET a == parser.arena
        html == last_child(a, Root)
    IN  IF html # 0 /\ a[html].open /\ a[html].value.t = "HtmlBlock" THEN html ELSE 0

\* the HTML block this step creates as a child of the document, or 0
NewHtml ==
    LET n == Len(parser.arena) + 1
    IN  IF /\ Len(parser'.arena) = n
           /\ parser'.arena[n].value.t = "HtmlBlock"
           /\ parser'.arena[n].parent = Root
        THEN n ELSE 0

\* the end condition of an HTML block of block_type 1 to 5
EndsHtml(block_type, line) ==
    CASE block_type = 1 ->
            \/ Contains(line, <<60, 47, 115, 99, 114, 105, 112, 116, 62>>)
            \/ Contains(line, <<60, 47, 112, 114, 101, 62>>)
            \/ Contains(line, <<60, 47, 115, 116, 121, 108, 101, 62>>)
      [] block_type = 2 -> Contains(line, <<45, 45, 62>>)
      [] block_type = 3 -> Contains(line, <<63, 62>>)
      [] block_type = 4 -> Contains(line, <<62>>)
      [] block_type = 5 -> Contains(line, <<93, 93, 62>>)
      [] OTHER -> FALSE

\* the block html that held text before the line is, after the line, closed
\* with the line at the end of its literal
ClosedWith(html, text, line) ==
    /\ ~parser'.arena[html].open
    /\ parser'.arena[html].value.literal = text \o line

\* the block html is open after the line, with the line at the end of its
\* content
OpenWith(html, text, line) ==
    /\ parser'.arena[html].open
    /\ parser'.arena[html].content = text \o line

Underline(line, c) ==
    LET k == skip_space_or_tab(line, 0)
        n == RunOf(line, k, c)
    IN  /\ IndentOf(line) <= 3
        /\ n >= 1
        /\ is_line_end_char(At(line, skip_space_or_tab(line, k + n)))

\* the paragraphs this step makes headings
Converted ==
    {n \in DOMAIN parser.arena :
        /\ parser.arena[n].value.t = "Paragraph"
        /\ parser'.arena[n].value.t = "Heading"}

\* C27: a setext underline makes a paragraph a heading only when the
\* paragraph is the last matched container and every open container
\* matched, so never on a line that would continue it lazily; the node
\* becomes a Heading with setext set, of level 1 for = and 2 for -, keeps
\* its content and stays open, and the underline is not added to it.
SetextOnMatchedParagraph ==
    [][pc' = "feed" /\ Ok(parser') =>
          \A n \in Converted :
             /\ Checked.some /\ Checked.all_matched /\ Checked.container = n
             /\ parser.current = n
             /\ Underline(From(LineFed, Checked.p.offset), 61)
                   \/ Underline(From(LineFed, Checked.p.offset), 45)
             /\ parser'.arena[n] =
                   [parser.arena[n] EXCEPT !.value =
                       [t |-> "Heading", setext |-> TRUE,
                        level |-> IF Underline(From(LineFed, Checked.p.offset), 61)
                                  THEN 1 ELSE 2]]
             /\ parser'.arena[n].open
             /\ Len(parser'.arena) = Len(parser.arena)]_vars

\* c and then ===: the paragraph is an open heading of level 1 that holds c
SetextHeadingSeen ==
    /\ pc = "feed" /\ Ok(parser)
    /\ fed = <<<<99, 10>>, <<61, 61, 61, 10>>>>
    /\ Len(parser.arena) = 2
    /\ parser.arena[2].value = [t |-> "Heading", setext |-> TRUE, level |-> 1]
    /\ parser.arena[2].content = <<99, 10>>
    /\ parser.arena[2].open


(***************************************************************************)
(* The order of the openers.  The conditions below are those of the arms   *)
(* of open_new_blocks, each taken alone, for the line at the last matched  *)
(* container.                                                              *)
(***************************************************************************)
OpenerOrder ==
    <<"BlockQuote", "Heading", "CodeBlock", "HtmlBlock", "Setext", "ThematicBreak",
      "List", "IndentedCode", "Table">>

\* the condition of the arm of one opener: q is the parser after
\* find_first_nonspace, cv the value of the container
OpenerMatches(kind, q, cv) ==
    LET line == LineFed
        fn == q.first_nonspace
        indented == q.indent >= CODE_INDENT
    IN  CASE kind = "BlockQuote" -> ~indented /\ At(line, fn) = 62
          [] kind = "Heading" ->
                /\ ~indented
                /\ atx_heading_start(line, fn) # None
                      \/ reddit_atx_heading_start(line, fn) # None
          [] kind = "CodeBlock" -> ~indented /\ open_code_fence(line, fn) # None
          [] kind = "HtmlBlock" ->
                /\ ~indented
                /\ html_block_start(line, fn) # None
                      \/ (cv.t # "Paragraph" /\ html_block_start_7(line, fn) # None)
          [] kind = "Setext" ->
                ~indented /\ cv.t = "Paragraph" /\ setext_heading_line(line, fn) # "None"
          [] kind = "ThematicBreak" ->
                /\ ~indented
                /\ ~(cv.t = "Paragraph" /\ ~Checked.all_matched)
                /\ thematic_break(line, fn) # None
          [] kind = "List" ->
                /\ ~indented \/ cv.t = "List"
                /\ parse_list_marker(line, fn, cv.t = "Paragraph").ok
          [] kind = "IndentedCode" ->
                /\ indented /\ ~q.blank
                /\ Checked.p.arena[Checked.p.current].value.t # "Paragraph"
          [] kind = "Table" ->
                /\ ~indented /\ q.options.ext_table
                /\ With(try_opening_block(q, Checked.container, line), LAMBDA r :
                        r.some /\ r.container # Checked.container)

\* the first opener of OpenerOrder whose condition holds, or "None"
RECURSIVE FirstMatch(_, _, _)
FirstMatch(kinds, q, cv) ==
    IF kinds = <<>> THEN "None"
    ELSE IF OpenerMatches(Head(kinds), q, cv) THEN Head(kinds)
    ELSE FirstMatch(Tail(kinds), q, cv)

\* the opener that acted first on the line of this step: the kind of the
\* first node the step allocates, or the conversion of a paragraph
FirstOpened ==
    IF Converted # {} THEN "Setext"
    ELSE IF Len(parser'.arena) = Len(parser.arena) THEN "None"
    ELSE With(parser'.arena[Len(parser.arena) + 1].value, LAMBDA v :
           CASE v.t = "CodeBlock" -> IF v.fenced THEN "CodeBlock" ELSE "IndentedCode"
             [] v.t \in {"List", "Item"} -> "List"
             [] v.t \in {"Table", "TableRow", "TableCell"} -> "Table"
             [] v.t = "Paragraph" -> "None"
             [] OTHER -> v.t)

\* the line of this step is looked at by open_new_blocks, at a container
\* that can hold blocks or lines
OpenersTried ==
    /\ pc' = "feed" /\ Ok(parser')
    /\ Checked.some
    /\ Checked.p.arena[Checked.container].value.t \notin {"CodeBlock", "HtmlBlock"}

\* C28: the openers are tried in the order block quote, ATX heading, fenced
\* code, HTML block, setext underline, thematic break, list marker, indented
\* code, table, and the first whose condition holds opens its block; so ---
\* after a matched open paragraph makes it a setext heading of level 2 and
\* opens no thematic break, and - - - and * * * open a thematic break and
\* no list.
OpenersInOrder ==
    [][OpenersTried =>
          LET q == find_first_nonspace(Checked.p, LineFed)
              cv == Checked.p.arena[Checked.container].value
              new == {parser'.arena[n].value.t :
                         n \in (Len(parser.arena) + 1)..Len(parser'.arena)}
          IN  /\ FirstOpened = FirstMatch(OpenerOrder, q, cv)
              /\ cv.t = "Paragraph" /\ LineFed = <<45, 45, 45, 10>> =>
                    /\ Converted = {Checked.container}
                    /\ parser'.arena[Checked.container].value.level = 2
                    /\ "ThematicBreak" \notin new
              /\ LineFed \in {<<45, 32, 45, 32, 45, 10>>, <<42, 32, 42, 32, 42, 10>>} =>
                    /\ parser'.arena[Len(parser.arena) + 1].value.t = "ThematicBreak"
                    /\ new \cap {"List", "Item"} = {}]_vars

\* c and then ---: a heading of level 2 and no thematic break
SetextBeforeThematicBreak ==
    /\ pc = "feed" /\ Ok(parser)
    /\ fed = <<<<99, 10>>, <<45, 45, 45, 10>>>>
    /\ Len(parser.arena) = 2
    /\ parser.arena[2].value = [t |-> "Heading", setext |-> TRUE, level |-> 2]


(***************************************************************************)
(* List markers.  After ParseListMarker, fed holds the line and ret the    *)
(* offset, the flag interrupts_paragraph and the marker returned.          *)
(***************************************************************************)
WhiteSpaceBytes == {9, 10, 11, 12, 13, 32}

\* the number of digits the line has from offset k on
RECURSIVE DigitRun(_, _)
DigitRun(line, k) ==
    IF k < Len(line) /\ At(line, k) \in 48..57 THEN 1 + DigitRun(line, k + 1) ELSE 0

\* the number written by the n digits from offset k on
RECURSIVE NumberAt(_, _, _)
NumberAt(line, k, n) ==
    IF n = 0 THEN 0 ELSE 10 * NumberAt(line, k, n - 1) + (At(line, k + n - 1) - 48)

\* only spaces and tabs from offset k to the end of the line
RECURSIVE RestBlank(_, _)
RestBlank(line, k) ==
    IF At(line, k) \in {32, 9} THEN RestBlank(line, k + 1) ELSE At(line, k) \in {10, 13}

\* C29: parse_list_marker accepts an ordered marker only of 1 to 9 digits,
\* then . or ), then whitespace, and a bullet marker only as *, - or +, then
\* whitespace; when it interrupts a paragraph, a marker with a blank rest of
\* line is rejected, and so is an ordered marker whose number is not 1.  It
\* accepts every other such marker, with its length and number.
ListMarkerAccepted ==
    pc = "parse_list_marker" =>
        LET line == fed[1]
            k == ret.pos
            d == DigitRun(line, k)
            bullet == At(line, k) \in {42, 45, 43} /\ At(line, k + 1) \in WhiteSpaceBytes
            ordered == /\ d \in 1..9
                       /\ At(line, k + d) \in {46, 41}
                       /\ At(line, k + d + 1) \in WhiteSpaceBytes
            length == IF bullet THEN 1 ELSE d + 1
            accepted == /\ bullet \/ ordered
                        /\ ret.interrupts_paragraph =>
                              /\ ~RestBlank(line, k + length)
                              /\ ordered => NumberAt(line, k, d) = 1
        IN  /\ ret.marker.ok <=> accepted
            /\ ret.marker.ok =>
                  /\ ret.marker.matched = length
                  /\ ret.marker.nl.list_type = IF bullet THEN "Bullet" ELSE "Ordered"
                  /\ ordered => ret.marker.nl.start = NumberAt(line, k, d)

\* 2. x and 1. are rejected when they interrupt a paragraph, and accepted
\* when they do not
InterruptingMarkerRejected ==
    /\ pc = "parse_list_marker"
    /\ fed[1] \in {<<50, 46, 32, 120, 10>>, <<49, 46, 10>>}
    /\ ret.interrupts_paragraph
    /\ ~ret.marker.ok


(***************************************************************************)
(* The padding of list items.  An Item starts on line start_line of the    *)
(* input, its marker at offset start_column - 1 of that line.              *)
(***************************************************************************)
\* C30: the padding of every Item is the length of its marker plus the
\* number of columns of whitespace after the marker when that number is 1 to
\* 4 and text follows, and the length of the marker plus 1 when 5 or more
\* columns of whitespace or the end of the line follow; so it is at least
\* the length plus 1 and at most the length plus 4.
ItemPadding ==
    \A n \in DOMAIN parser.arena :
       parser.arena[n].value.t = "Item" =>
          LET line == parser.lines[parser.arena[n].start_line]
              k == parser.arena[n].start_column - 1
              length == IF At(line, k) \in {42, 45, 43} THEN 1 ELSE DigitRun(line, k) + 1
              e == skip_space_or_tab(line, k + length)
              columns == ColumnAt(line, e) - ColumnAt(line, k + length)
              padding == parser.arena[n].value.nl.padding
          IN  /\ padding \in (length + 1)..(length + 4)
              /\ padding = IF columns \in 1..4 /\ At(line, e) \notin {10, 13}
                           THEN length + columns ELSE length + 1

\* items of every padding from 2 to 5 are reached, and one whose marker is
\* followed by five columns of whitespace
ItemPaddingSeen ==
    /\ pc = "finish" /\ Ok(parser)
    /\ fed = <<<<32, 32, 45, 9, 120, 10>>, <<45, 32, 32, 32, 32, 120, 10>>,
               <<45, 32, 32, 32, 32, 32, 120, 10>>>>
    /\ {parser.arena[n].value.nl.padding :
           n \in {m \in DOMAIN parser.arena : parser.arena[m].value.t = "Item"}} = {2, 5}

\* ------------------------------------------------------------------ C31
\* list_type, delimiter and bullet_char of a NodeList
ListKind(nl) == <<nl.list_type, nl.delimiter, nl.bullet_char>>

\* every Item is the child of a List, and the children of every List are
\* Items of the kind of the List
ListsHoldTheirItems(a) ==
    \A n \in 1..Len(a) :
        /\ a[n].value.t = "Item" =>
              a[n].parent # 0 /\ a[a[n].parent].value.t = "List"
        /\ a[n].value.t = "List" =>
              \A k \in 1..Len(a[n].children) :
                  LET c == a[n].children[k]
                  IN  /\ a[c].value.t = "Item"
                      /\ ListKind(a[c].value.nl) = ListKind(a[n].value.nl)

\* the line of this step brings a list marker to an open List of another kind
MarkerOfOtherKind ==
    /\ pc' = "feed" /\ Ok(parser')
    /\ Checked.some
    /\ Checked.p.arena[Checked.container].value.t = "List"
    /\ LET q == find_first_nonspace(Checked.p, LineFed)
           m == parse_list_marker(LineFed, q.first_nonspace, FALSE)
       IN  /\ q.indent < CODE_INDENT
           /\ m.ok
           /\ ListKind(m.nl) # ListKind(Checked.p.arena[Checked.container].value.nl)

\* the List is closed, and a new List follows it under the same parent and
\* holds an Item, the first two nodes the step allocates
NewSiblingList ==
    LET list == Checked.container
        new == Len(parser.arena) + 1
        a == parser'.arena
    IN  /\ ~a[list].open
        /\ Len(a) >= new + 1
        /\ a[new].value.t = "List"
        /\ a[new].parent = a[list].parent
        /\ next_sibling(a, list) = new
        /\ a[new + 1].value.t = "Item"
        /\ a[new + 1].parent = new
        /\ a[new].children[1] = new + 1

\* C31: in every tree each Item's parent is a List and each List's children
\* are all Items having the list's list_type, delimiter and bullet_char; a
\* list marker that does not match the open list finalizes that list and
\* opens a new sibling List before the Item is added.
ListsOfOneKind ==
    /\ [](Ok(parser) => ListsHoldTheirItems(parser.arena))
    /\ [][MarkerOfOtherKind => NewSiblingList]_vars

\* a finished tree with two Lists of different kinds under one parent
TwoListsSeen ==
    /\ pc = "finish" /\ Ok(parser)
    /\ \E n, m \in 1..Len(parser.arena) :
          /\ parser.arena[n].value.t = "List" /\ parser.arena[m].value.t = "List"
          /\ parser.arena[n].parent = parser.arena[m].parent
          /\ next_sibling(parser.arena, n) = m
          /\ ListKind(parser.arena[n].value.nl) # ListKind(parser.arena[m].value.nl)
          /\ parser.arena[m].children # <<>>

\* ------------------------------------------------------------------ C32
\* the indented code blocks the step allocates
NewIndentedCode ==
    {n \in (Len(parser.arena) + 1)..Len(parser'.arena) :
        parser'.arena[n].value.t = "CodeBlock" /\ ~parser'.arena[n].value.fenced}

\* the step feeds a line that open_new_blocks finds indented by 4 or more
\* columns and not blank at its first container, while self.current is an
\* open Paragraph
IndentedAtParagraph ==
    /\ pc' = "feed" /\ Ok(parser')
    /\ Checked.some
    /\ parser.arena[parser.current].value.t = "Paragraph"
    /\ parser.arena[parser.current].open
    /\ LET q == find_first_nonspace(Checked.p, LineFed)
       IN  q.indent >= CODE_INDENT /\ ~q.blank

\* the line is added to self.current from some offset within its indentation
AddedToParagraph ==
    LET cur == parser.current
    IN  /\ parser'.current = cur
        /\ \E k \in 0..Len(LineFed) :
              /\ \A i \in 0..(k - 1) : is_space_or_tab(At(LineFed, i))
              /\ ~is_line_end_char(At(LineFed, k))
              /\ parser'.arena[cur].content = parser.arena[cur].content \o From(LineFed, k)

\* C32: an indented code block is never opened by a blank line, nor by a
\* line indented 4 or more columns that arrives while self.current is an
\* open paragraph and no other block was opened earlier on that line; such
\* a line is added to the paragraph instead.
NoCodeInParagraph ==
    [][/\ pc' = "feed" /\ Ok(parser') /\ BlankLine(LineFed) => NewIndentedCode = {}
       /\ IndentedAtParagraph =>
             /\ Len(parser.arena) + 1 \notin NewIndentedCode
             /\ Len(parser'.arena) = Len(parser.arena) => AddedToParagraph]_vars

\* "c" and then four spaces and c: one paragraph holds both lines and no
\* code block was opened
IndentedLineInParagraph ==
    /\ pc = "feed" /\ Ok(parser)
    /\ fed = <<<<99, 10>>, <<32, 32, 32, 32, 99, 10>>>>
    /\ Len(parser.arena) = 2
    /\ parser.arena[2].value.t = "Paragraph"
    /\ parser.arena[2].content = <<99, 10, 99, 10>>

\* ------------------------------------------------------------------ C33
\* the node, and below a List or an Item the chain of last children
RECURSIVE LastChain(_, _)
LastChain(a, n) ==
    {n} \cup IF a[n].value.t \in {"List", "Item"} /\ a[n].children # <<>>
             THEN LastChain(a, a[n].children[Len(a[n].children)])
             ELSE {}

\* the node ends on a blank line
EndsOnBlank(a, n) == \E d \in LastChain(a, n) : a[d].last_line_blank

Children(a, n) == {a[n].children[k] : k \in 1..Len(a[n].children)}

\* an item of the list has last_line_blank and a following sibling
BlankBetweenItems(a, list) ==
    \E item \in Children(a, list) : a[item].last_line_blank /\ next_sibling(a, item) # 0

\* tightness as stated: the children of the items that are not the last
TightAsStated(a, list) ==
    /\ ~BlankBetweenItems(a, list)
    /\ \A item \in Children(a, list) :
          next_sibling(a, item) # 0 =>
              \A sub \in Children(a, item) : ~EndsOnBlank(a, sub)

\* tightness as computed: a child that ends on a blank line counts when its
\* item or the child itself has a following sibling
TightAsComputed(a, list) ==
    /\ ~BlankBetweenItems(a, list)
    /\ \A item \in Children(a, list) : \A sub \in Children(a, item) :
          EndsOnBlank(a, sub) =>
              next_sibling(a, item) = 0 /\ next_sibling(a, sub) = 0

ClosedLists ==
    {n \in 1..Len(parser.arena) : parser.arena[n].value.t = "List" /\ ~parser.arena[n].open}

\* C33: at finalization a List is marked tight exactly when no item has
\* last_line_blank set while having a following sibling, and no descendant
\* within a non-terminal item ends on a blank line; otherwise it is loose.
TightWhenNoBlankInNonTerminalItem ==
    Ok(parser) =>
        \A n \in ClosedLists :
            parser.arena[n].value.nl.tight = TightAsStated(parser.arena, n)

\* C33 as the code has it: a finalized List is tight exactly when no item
\* has last_line_blank set while having a following sibling, and no child of
\* an item ends on a blank line while the item or the child has a following
\* sibling.
TightWhenNoBlankInside ==
    Ok(parser) =>
        \A n \in ClosedLists :
            parser.arena[n].value.nl.tight = TightAsComputed(parser.arena, n)

\* a finalized List of one item that is loose: the first paragraph of the
\* item ends on a blank line and another paragraph follows it
LooseSingleItemSeen ==
    /\ Ok(parser)
    /\ \E n \in ClosedLists :
          /\ Len(parser.arena[n].children) = 1
          /\ ~parser.arena[n].value.nl.tight
          /\ \E sub \in Children(parser.arena, parser.arena[n].children[1]) :
                EndsOnBlank(parser.arena, sub) /\ next_sibling(parser.arena, sub) # 0

\* ------------------------------------------------------------------ C34
\* every byte of s is a space, a tab or a line end
AllWhitespace(s) == \A i \in 1..Len(s) : s[i] \in {32, 9, 10, 13}

\* s begins with [ and a complete reference definition
StartsWithDefinition(s) ==
    /\ s # <<>>
    /\ At(s, 0) = 91
    /\ parse_reference_inline({}, s).pos # None

\* the node hangs below the root
InTree(a, n) == Root \in AncestorsOrSelf(a, n)

\* the Paragraphs that the step finalizes
ParagraphsClosed ==
    {n \in 1..Len(parser.arena) :
        /\ parser.arena[n].value.t = "Paragraph" /\ parser.arena[n].open
        /\ parser'.arena[n].value.t = "Paragraph" /\ ~parser'.arena[n].open}

\* content lost whole lines at its front, only if it began with [
LeadingLinesRemoved(before, after) ==
    \E k \in 0..Len(before) :
        /\ after = From(before, k)
        /\ k > 0 => At(before, 0) = 91 /\ At(before, k - 1) = 10

\* C34: finalizing a Paragraph removes every leading reference definition
\* from its content, repeating while the content still begins with [ and a
\* complete definition parses, and detaches the paragraph when what is left
\* is blank; so the finished tree contains no Paragraph whose content is
\* blank.
DefinitionsStripped ==
    /\ [][Ok(parser') =>
            \A n \in ParagraphsClosed :
                LeadingLinesRemoved(parser.arena[n].content, parser'.arena[n].content)]_vars
    /\ [](Ok(parser) =>
            \A n \in 1..Len(parser.arena) :
                parser.arena[n].value.t = "Paragraph" /\ ~parser.arena[n].open =>
                    /\ ~StartsWithDefinition(parser.arena[n].content)
                    /\ AllWhitespace(parser.arena[n].content) => parser.arena[n].parent = 0)
    /\ [](Ok(parser) /\ pc \in {"finish", "parse_document"} =>
            \A n \in 1..Len(parser.arena) :
                parser.arena[n].value.t = "Paragraph" /\ InTree(parser.arena, n) =>
                    /\ ~parser.arena[n].open
                    /\ ~AllWhitespace(parser.arena[n].content))

\* "[a]: b", "[a]: b" and "c", finished: the paragraph holds c alone, and a
\* paragraph of definitions alone is detached
DefinitionsStrippedSeen ==
    /\ pc = "finish" /\ Ok(parser)
    /\ fed = <<<<91, 97, 93, 58, 32, 98, 10>>, <<91, 97, 93, 58, 32, 98, 10>>, <<99, 10>>>>
    /\ parser.refmap # {}
    /\ \E n \in 1..Len(parser.arena) :
          /\ parser.arena[n].value.t = "Paragraph" /\ InTree(parser.arena, n)
          /\ parser.arena[n].content = <<99, 10>>

\* ------------------------------------------------------------------ C36
\* the Text nodes below the root that are followed by a Text node
AdjacentText(a) ==
    {n \in 1..Len(a) :
        /\ InTree(a, n)
        /\ a[n].value.t = "Text"
        /\ next_sibling(a, n) # 0
        /\ a[next_sibling(a, n)].value.t = "Text"}

\* C36: after the text post-pass no Text node anywhere in the returned tree
\* has a Text node as its next sibling, including Text nodes that are
\* children of Link or Image nodes.
NoAdjacentText ==
    pc = "postprocess_text_nodes" /\ Ok(parser) => AdjacentText(parser.arena) = {}

\* ------------------------------------------------------------------ C37
\* s without the whitespace at its front and at its end
RECURSIVE StripFront(_)
StripFront(s) == IF s # <<>> /\ isspace(Head(s)) THEN StripFront(Tail(s)) ELSE s

RECURSIVE StripBack(_)
StripBack(s) ==
    IF s # <<>> /\ isspace(s[Len(s)]) THEN StripBack(SubSeq(s, 1, Len(s) - 1)) ELSE s

Stripped(s) == StripBack(StripFront(s))

\* the positions of the line ends of content
LineEnds(content) == {k \in 1..Len(content) : is_line_end_char(content[k])}

FirstLineEnd(content) == CHOOSE k \in LineEnds(content) : \A j \in LineEnds(content) : k <= j

\* the fenced code blocks that the step finalizes
FencedClosed ==
    {n \in 1..Len(parser.arena) :
        /\ parser.arena[n].value.t = "CodeBlock" /\ parser.arena[n].value.fenced
        /\ parser.arena[n].open /\ ~parser'.arena[n].open}

\* C37: the info string of a finalized fenced code block is the first line
\* of its content with leading and trailing whitespace removed (then
\* unescaped), the remaining lines become its literal, and at finalization
\* the content always contains a line end, so the assertion
\* pos < content.len() holds.
InfoIsTrimmedFirstLine ==
    /\ [](parser.panic # "finalize: assert!(pos < content.len())")
    /\ [][Ok(parser') =>
            \A n \in FencedClosed :
                LET content == parser.arena[n].content
                    k == FirstLineEnd(content)
                IN  /\ LineEnds(content) # {}
                    /\ parser'.arena[n].value.info =
                          unescape(unescape_html(Stripped(SubSeq(content, 1, k - 1))))
                    /\ parser'.arena[n].value.literal =
                          SubSeq(content, k + 1, Len(content))]_vars

\* ------------------------------------------------------------------ C38
\* the step feeds a line to an open Table, which takes it as a body row: the
\* first node allocated is a TableRow under the Table
BodyRowAdded ==
    /\ pc' = "feed" /\ Ok(parser')
    /\ Checked.some
    /\ Checked.p.arena[Checked.container].value.t = "Table"
    /\ Len(parser'.arena) > Len(parser.arena)
    /\ parser'.arena[Len(parser.arena) + 1].value = [t |-> "TableRow", header |-> FALSE]
    /\ parser'.arena[Len(parser.arena) + 1].parent = Checked.container

\* the text that check_open_blocks tested for the shape of a row: the line
\* from its first non-space byte after the prefixes of the containers
TestedText == From(LineFed, Checked.p.first_nonspace)

\* C38: the cells of a table body row are split from the same text that was
\* tested for row shape when the table was continued, the line remaining
\* after the prefixes of enclosing containers and leading spaces have been
\* consumed; no cell contains a container prefix.
CellsOfTestedText ==
    [][BodyRowAdded =>
          LET r == Len(parser.arena) + 1
              n == Len(Checked.p.arena[Checked.container].value.alignments)
          IN  /\ CellContents(parser'.arena, r) = CutOrPadded(row(TestedText).cells, n)
              /\ \A k \in 1..n : ~Contains(CellContents(parser'.arena, r)[k], <<62>>)]_vars

\* ------------------------------------------------------------------ C39
\* the nodes that the step finalizes
Finalized ==
    {n \in 1..Len(parser'.arena) :
        /\ ~parser'.arena[n].open
        /\ n <= Len(parser.arena) => parser.arena[n].open}

\* a Document, a fenced code block, a setext heading
EndsOnTheLine(v) ==
    \/ v.t = "Document"
    \/ v.t = "CodeBlock" /\ v.fenced
    \/ v.t = "Heading" /\ v.setext

\* last_line_length when the nodes of the step are finalized: process_line
\* finalizes before it sets the length of its line, and finish finalizes also
\* after it has processed the line buffer
LengthAtFinalize ==
    {parser.last_line_length} \cup
        IF pc' = "finish" THEN {parser'.last_line_length} ELSE {}

\* C39: whenever a node is finalized the line buffer is empty, and a node that
\* takes the end_line = line_number - 1 branch is finalized only when
\* line_number is at least 1, so the subtraction never underflows; a
\* Document, fenced code block or setext heading gets end_line = line_number
\* and end_column = 0.  Every step processes at most one line, so the
\* line_number read by finalize is that of the state after the step.
EndsWithEmptyLineBuffer ==
    /\ [](parser.panic # "u32 subtraction overflows")
    /\ [][Ok(parser') =>
            \A n \in Finalized :
                IF EndsOnTheLine(parser'.arena[n].value)
                THEN /\ parser'.arena[n].end_line = parser'.line_number
                     /\ parser'.arena[n].end_column = 0
                ELSE /\ parser'.line_number >= 1
                     /\ parser'.arena[n].end_line = parser'.line_number - 1
                     /\ parser'.arena[n].end_column \in LengthAtFinalize]_vars

\* "a" and LF fed, "=" left in the line buffer, then finish: the setext
\* heading ends on line 2 at column 0
HeadingEndsOnItsLine ==
    /\ pc = "finish" /\ Ok(parser)
    /\ fed = <<<<97, 10>>, <<61>>>>
    /\ parser.arena[2].value = [t |-> "Heading", level |-> 1, setext |-> TRUE]
    /\ ~parser.arena[2].open
    /\ parser.arena[2].end_line = 2
    /\ parser.arena[2].end_column = 0
    /\ parser.linebuf = <<>>

\* ------------------------------------------------------------------ C35
\* no leaf was inline-parsed before the state after the step
NoLeafParsed ==
    \/ pc' \in {"new", "feed", "finalize_document"}
    \/ pc' = "process_inlines" /\ ret' = <<>>

\* the step finalizes a node
SomeNodeFinalized ==
    \E n \in 1..Len(parser.arena) :
        parser.arena[n].open /\ ~parser'.arena[n].open

\* the step calls parse_inlines
LeafParsed == pc = "process_inlines" /\ pc' = "process_inlines" /\ Len(ret') > Len(ret)

\* the line [a]: b was fed where it begins a paragraph
DefinitionLine == <<91, 97, 93, 58, 32, 98, 10>>

DefinitionFed ==
    \E k \in 1..Len(fed) :
        fed[k] = DefinitionLine /\ (k = 1 \/ fed[k - 1] = <<10>>)

\* C35: every node finalization, and therefore every insertion into the
\* reference map, happens before the first leaf is inline-parsed, and the
\* reference map is not inserted into after that point; so a definition that
\* appears later in the document is already registered when an earlier
\* paragraph is inline-parsed.
BlockPhaseBeforeInlinePhase ==
    [][/\ SomeNodeFinalized \/ parser'.refmap # parser.refmap => NoLeafParsed
       /\ LeafParsed =>
             /\ \A n \in 1..Len(parser.arena) :
                   block(parser.arena[n].value) => ~parser.arena[n].open
             /\ DefinitionFed => \E e \in parser.refmap : e.label = <<97>>]_vars

\* [a], a blank line and [a]: b, finished: the paragraph of the first line
\* holds a Link to b
LaterDefinitionUsed ==
    /\ pc = "finish" /\ Ok(parser)
    /\ fed = <<<<91, 97, 93, 10>>, <<10>>, DefinitionLine>>
    /\ parser.arena[2].value.t = "Paragraph"
    /\ Len(parser.arena[2].children) = 1
    /\ parser.arena[parser.arena[2].children[1]].value =
          [t |-> "Link", url |-> <<98>>, title |-> <<>>]

====
